---- MODULE Spec2Model ----
(***************************************************************************)
(* Model of the transcript aggregation of clio-whisper:                     *)
(*   app/services/transcript_aggregator.py  (TranscriptAggregator)          *)
(*   app/models/transcript.py               (TranscriptSegment,             *)
(*                                           UnconsolidatedTranscript,      *)
(*                                           ConsolidatedTranscript)        *)
(* A text is a sequence of one-character strings, so that strip, split,     *)
(* lower, startswith, endswith and the substring test are computed on       *)
(* characters as Python computes them.  A timestamp is a whole number of    *)
(* seconds of the wall clock.                                               *)
(***************************************************************************)
EXTENDS Integers, Sequences, FiniteSets, TLC

\* ------------------------------------------------------------------ bounds
NTexts == 3        \* the first NTexts texts of TextPool arrive from upstream
MaxTime == 2       \* the clock stops advancing at MaxTime
MaxRev == 2        \* a text update is not offered beyond this segment revision
MaxSegs == 2       \* the window settings 1..MaxSegs are explored, with MaxSegs ids
MaxQuestions == 2  \* the question limits 1..MaxQuestions are explored
MaxStarts == 2     \* start() is accepted at most MaxStarts times
MaxLoops == 1      \* at most MaxLoops send loops and receive loops are alive at once
MaxQueue == 2      \* an upstream message arrives only while event_queue holds fewer events

MaxFailures == 11  \* a connection attempt is not begun after MaxFailures failed ones in a row
MaxConnects == 2   \* SERVER_READY arrives in at most MaxConnects sessions
MaxDropped == 3    \* an inbound message arrives only while it leaves segments_dropped within MaxDropped
MaxSubscribers == 2 \* at most MaxSubscribers subscribers are registered in each list
MaxQueues == 2      \* the BroadcastWorker serves at most MaxQueues subscriber queues
MaxFrames == 5     \* the audio input delivers at most MaxFrames frames
MaxAudioQueue == 2 \* audio_queue holds MaxAudioQueue frames (100 in the program)
MaxOffered == 2    \* at most MaxOffered frames are put into pipeline.audio_queue
MaxPerMessage == 2  \* an inbound message carries at most MaxPerMessage segments
MaxConsolidatedLength == 5 \* AggregationConfig.max_consolidated_length as configured (100000 by default)

\* settings.aggregation_commit_delay_seconds (default 2.0)
CommitDelay == 2

\* delays are counted in units of 1/10000 s
\* reconnect_delay = 5.0 in _whisper_client_loop
BaseDelay == 50000
\* the clamp of reconnect_delay, 30.0 s
MaxDelay == 300000
\* WhisperLiveClient._max_reconnect_attempts
MaxReconnectAttempts == 10
\* asyncio.Queue(maxsize=50) of add_sse_client and add_ws_client
SubscriberMaxsize == 50
\* the identities of the subscriber queues the BroadcastWorker is given
QueueIds == 1..MaxQueues
\* values random.uniform(0.8, 1.2) can return, in tenths: both ends and the middle
JitterTenths == {8, 10, 12}

\* the segment ids that arrive from upstream
Ids == 1..MaxSegs
\* upstream segment i starts at second i - 1
StartTimeOf(sid) == sid - 1

TextPool ==
  << <<"a">>,
     <<"a", " ", "b">>,
     <<"b", " ", "c">>,
     <<" ", "B", " ", " ", "c">>,
     << >>,
     <<"c", " ", "?">> >>

Texts == {TextPool[i] : i \in 1..NTexts}

\* texts that carry a question marker
QuestionPool ==
  << <<"a", "?">>,
     <<"A", " ", "?">>,
     <<"b", "?">>,
     <<"c", " ", "?">>,
     <<"w", "h", "a", "t">>,
     <<"a">> >>

QuestionTexts == {QuestionPool[i] : i \in 1..NTexts}

\* texts that repeat, contain or reorder one another, and the empty text
SuppressionPool ==
  << <<"a">>,
     <<"b">>,
     <<"a", " ", "b">>,
     <<"b", " ", "a">>,
     << >> >>

SuppressionTexts == {SuppressionPool[i] : i \in 1..Len(SuppressionPool)}

\* ------------------------------------------------------------ str helpers
Punct == {".", ",", "!", "?", ";", ":"}

IsSpace(c) == c = " "

LowerChar(c) ==
  CASE c = "A" -> "a"
    [] c = "B" -> "b"
    [] c = "C" -> "c"
    [] OTHER -> c

Lower(s) == [i \in 1..Len(s) |-> LowerChar(s[i])]

RECURSIVE LStrip(_)
LStrip(s) == IF s # << >> /\ IsSpace(Head(s)) THEN LStrip(Tail(s)) ELSE s

RECURSIVE RStrip(_)
RStrip(s) ==
  IF s # << >> /\ IsSpace(s[Len(s)]) THEN RStrip(SubSeq(s, 1, Len(s) - 1)) ELSE s

Strip(s) == RStrip(LStrip(s))

\* re.sub(r"\s+", " ", text)
RECURSIVE CollapseWS(_)
CollapseWS(s) ==
  IF s = << >> THEN << >>
  ELSE IF IsSpace(Head(s)) THEN <<" ">> \o CollapseWS(LStrip(s))
  ELSE <<Head(s)>> \o CollapseWS(Tail(s))

\* re.sub(r" ([.,!?;:])", r"\1", text)
RECURSIVE TightenPunct(_)
TightenPunct(s) ==
  IF Len(s) < 2 THEN s
  ELSE IF s[1] = " " /\ s[2] \in Punct
       THEN <<s[2]>> \o TightenPunct(SubSeq(s, 3, Len(s)))
  ELSE <<s[1]>> \o TightenPunct(Tail(s))

normalize_text(text) == TightenPunct(CollapseWS(Strip(text)))

RECURSIVE WordLen(_)
WordLen(s) == IF s = << >> \/ IsSpace(Head(s)) THEN 0 ELSE 1 + WordLen(Tail(s))

\* str.split(): the maximal runs of non-whitespace
RECURSIVE Split(_)
Split(s) ==
  LET t == LStrip(s) IN
  IF t = << >> THEN << >>
  ELSE LET n == WordLen(t) IN <<SubSeq(t, 1, n)>> \o Split(SubSeq(t, n + 1, Len(t)))

\* " ".join(words)
RECURSIVE Join(_)
Join(ws) ==
  IF ws = << >> THEN << >>
  ELSE IF Len(ws) = 1 THEN ws[1]
  ELSE ws[1] \o <<" ">> \o Join(Tail(ws))

StartsWith(s, p) == Len(p) <= Len(s) /\ SubSeq(s, 1, Len(p)) = p

EndsWith(s, p) == Len(p) <= Len(s) /\ SubSeq(s, Len(s) - Len(p) + 1, Len(s)) = p

\* needle in hay
Contains(hay, needle) ==
  \E i \in 0..(Len(hay) - Len(needle)) : SubSeq(hay, i + 1, i + Len(needle)) = needle

WordSet(s) == {Split(s)[i] : i \in 1..Len(Split(s))}

\* hashlib.sha256(normalized.lower()).hexdigest()[:16], taken as collision free:
\* two texts have the same hash exactly when their lowered normal forms agree.
compute_hash(text) == Lower(normalize_text(text))

\* ------------------------------------------------- ConsolidatedTranscript
LessKey(a, b) ==
  \/ a.start_time < b.start_time
  \/ a.start_time = b.start_time /\ a.segment_id < b.segment_id

\* sorted(committed, key=lambda x: (x.start_time, x.segment_id))
RECURSIVE SortByKey(_)
SortByKey(segs) ==
  IF segs = << >> THEN << >>
  ELSE LET i == CHOOSE i \in 1..Len(segs) :
                  \A j \in 1..Len(segs) : j = i \/ ~LessKey(segs[j], segs[i])
           rest == [k \in 1..(Len(segs) - 1) |-> IF k < i THEN segs[k] ELSE segs[k + 1]]
       IN <<segs[i]>> \o SortByKey(rest)

RECURSIVE SelectCommitted(_)
SelectCommitted(segs) ==
  IF segs = << >> THEN << >>
  ELSE IF Head(segs).status = "committed"
       THEN <<Head(segs)>> \o SelectCommitted(Tail(segs))
  ELSE SelectCommitted(Tail(segs))

\* the largest i in len(words_new)..1 whose last i words agree, else 0
RECURSIVE MaxOverlap(_, _, _)
MaxOverlap(words_new, words_current, i) ==
  IF i = 0 THEN 0
  ELSE LET suffix_new == Join(SubSeq(words_new, Len(words_new) - i + 1, Len(words_new)))
           suffix_current ==
             IF Len(words_current) >= i
             THEN Join(SubSeq(words_current, Len(words_current) - i + 1, Len(words_current)))
             ELSE << >>
       IN IF suffix_new = suffix_current THEN i
          ELSE MaxOverlap(words_new, words_current, i - 1)

get_non_overlapping_suffix(new_text, current_text) ==
  IF current_text = << >> THEN Strip(new_text)
  ELSE LET current_normalized == Strip(Lower(current_text))
           new_normalized == Strip(Lower(new_text))
           words_current == Split(current_normalized)
           words_new == Split(new_normalized)
           max_overlap == MaxOverlap(words_new, words_current, Len(words_new))
       IN IF StartsWith(new_normalized, current_normalized) THEN << >>
          ELSE IF EndsWith(current_normalized, new_normalized) THEN << >>
          ELSE IF max_overlap > 0
               THEN Strip(Join(SubSeq(words_new, max_overlap + 1, Len(words_new))))
          ELSE Strip(new_text)

\* only a text equal to the consolidated text is a duplicate
IsDuplicate_exact(normalized, text) == Strip(Lower(text)) = Strip(Lower(normalized))

\* the three duplicate tests of the first loop
IsDuplicate(normalized, text) ==
  LET current_lower == Strip(Lower(text))
      normalized_lower == Strip(Lower(normalized))
      current_words == WordSet(current_lower)
      new_words == WordSet(normalized_lower)
      is_exact_match == current_lower = normalized_lower
      is_substring_match ==
        normalized_lower # << >> /\ Contains(current_lower, normalized_lower)
      \* len(current_words & new_words) / len(new_words) > 0.8
      is_highly_similar ==
        /\ Cardinality(new_words) > 0
        /\ 10 * Cardinality(current_words \cap new_words) > 8 * Cardinality(new_words)
  IN is_exact_match \/ is_substring_match \/ is_highly_similar

\* a ledger that is never consulted
InLedger_never(seg, hashes) == FALSE

InLedger(seg, hashes) == seg.text_hash \in hashes

\* first loop: [new_segments, hashes]
RECURSIVE FirstLoop(_, _, _, _)
FirstLoop(sorted, text, hashes, new_segments) ==
  IF sorted = << >> THEN [new_segments |-> new_segments, hashes |-> hashes]
  ELSE LET seg == Head(sorted)
           normalized == normalize_text(seg.text)
       IN IF normalized = << >>
          THEN FirstLoop(Tail(sorted), text, hashes, new_segments)
          ELSE IF InLedger(seg, hashes)
          THEN FirstLoop(Tail(sorted), text, hashes, new_segments)
          ELSE IF IsDuplicate(normalized, text)
          THEN FirstLoop(Tail(sorted), text, hashes \cup {seg.text_hash}, new_segments)
          ELSE FirstLoop(Tail(sorted), text, hashes \cup {seg.text_hash},
                         Append(new_segments, seg))

\* the suffix is put in front of the text
AppendSuffix_prepends(text, suffix) ==
  IF suffix = << >> THEN text
  ELSE IF text # << >> THEN suffix \o <<" ">> \o text
  ELSE suffix

AppendSuffix(text, suffix) ==
  IF suffix = << >> THEN text
  ELSE IF text # << >> /\ ~EndsWith(text, <<" ">>) THEN text \o <<" ">> \o suffix
  ELSE text \o suffix

\* second loop: the text after every new segment's suffix is appended
RECURSIVE SecondLoop(_, _)
SecondLoop(new_segments, text) ==
  IF new_segments = << >> THEN text
  ELSE LET normalized == normalize_text(Head(new_segments).text)
       IN IF normalized = << >> THEN SecondLoop(Tail(new_segments), text)
          ELSE SecondLoop(Tail(new_segments),
                          AppendSuffix(text, get_non_overlapping_suffix(normalized, text)))

BumpRevision(cons, text, n) ==
  [text |-> Strip(text), revision |-> cons.revision + 1, segment_count |-> n]

\* ConsolidatedTranscript.update_from_segments:
\* [cons, hashes, appended (the hashes of new_segments, in order)]
update_from_segments(cons, hashes, segs) ==
  LET committed == SelectCommitted(segs)
      first == FirstLoop(SortByKey(committed), cons.text, hashes, << >>)
      new_segments == first.new_segments
  IN IF committed = << >>
     THEN [cons |-> cons, hashes |-> hashes, appended |-> << >>]
     ELSE IF new_segments = << >>
     THEN [cons |-> cons, hashes |-> first.hashes, appended |-> << >>]
     ELSE [cons |-> BumpRevision(cons, SecondLoop(new_segments, cons.text), Len(committed)),
           hashes |-> first.hashes,
           appended |-> [i \in 1..Len(new_segments) |-> new_segments[i].text_hash]]

\* ------------------------------------------------ dictionaries (dict)
Put(f, k, v) == [x \in (DOMAIN f) \cup {k} |-> IF x = k THEN v ELSE f[x]]

Pop(f, k) == [x \in (DOMAIN f) \ {k} |-> f[x]]

EmptyDict == << >>

\* ------------------------------------------------ UnconsolidatedTranscript
\* _find_segment: the index of the first segment with this id, 0 for None
find_segment(segs, sid) ==
  IF \E i \in 1..Len(segs) : segs[i].segment_id = sid
  THEN CHOOSE i \in 1..Len(segs) :
         /\ segs[i].segment_id = sid
         /\ \A j \in 1..(i - 1) : segs[j].segment_id # sid
  ELSE 0

ReplaceAt(segs, idx, seg) == [segs EXCEPT ![idx] = seg]

add_segment(segs, seg) ==
  LET existing == find_segment(segs, seg.segment_id) IN
  IF existing # 0
  THEN IF seg.revision > segs[existing].revision
       THEN ReplaceAt(segs, existing, seg)
       ELSE segs
  ELSE Append(segs, seg)

\* the newer revision is appended instead of replacing the stored one
update_segment_appends(segs, seg) ==
  LET existing == find_segment(segs, seg.segment_id) IN
  IF existing # 0 /\ seg.revision > segs[existing].revision
  THEN Append(segs, seg)
  ELSE segs

update_segment(segs, seg) ==
  LET existing == find_segment(segs, seg.segment_id) IN
  IF existing # 0 /\ seg.revision > segs[existing].revision
  THEN ReplaceAt(segs, existing, seg)
  ELSE segs

\* the index of the first segment with this id whose status is FINAL, else 0
CommitIndex(segs, sid) ==
  IF \E i \in 1..Len(segs) : segs[i].segment_id = sid /\ segs[i].status = "final"
  THEN CHOOSE i \in 1..Len(segs) :
         /\ segs[i].segment_id = sid /\ segs[i].status = "final"
         /\ \A j \in 1..(i - 1) : ~(segs[j].segment_id = sid /\ segs[j].status = "final")
  ELSE 0

commit_segment(segs, sid) ==
  LET i == CommitIndex(segs, sid) IN
  IF i # 0 THEN [segs EXCEPT ![i].status = "committed"] ELSE segs

\* TranscriptSegment.with_updated_text: the returned segment
with_updated_text(seg, text, status) ==
  [seg EXCEPT !.text = text,
              !.text_hash = compute_hash(text),
              !.status = status,
              !.revision = seg.revision + 1]

\* ------------------------------------------------ TranscriptAggregator
\* _should_commit_segment, called with status FINAL: [ok, ts]
should_commit_segment(ts, sid, t) ==
  IF sid \in DOMAIN ts /\ t - ts[sid] < CommitDelay
  THEN [ok |-> FALSE, ts |-> ts]
  ELSE [ok |-> TRUE, ts |-> Put(ts, sid, t)]

\* max(segments, key=lambda s: s.created_at): the first of the youngest
OldestIndex_newest(segs) ==
  CHOOSE i \in 1..Len(segs) :
    /\ \A j \in 1..Len(segs) : segs[i].created_at >= segs[j].created_at
    /\ \A j \in 1..(i - 1) : segs[j].created_at < segs[i].created_at

\* min(segments, key=lambda s: s.created_at): the first of the oldest
OldestIndex(segs) ==
  CHOOSE i \in 1..Len(segs) :
    /\ \A j \in 1..Len(segs) : segs[i].created_at <= segs[j].created_at
    /\ \A j \in 1..(i - 1) : segs[j].created_at > segs[i].created_at

RemoveAt(segs, i) ==
  [k \in 1..(Len(segs) - 1) |-> IF k < i THEN segs[k] ELSE segs[k + 1]]

\* _enforce_limits: [segs, cache, ts, evicted (the removed segments, in order)]
RECURSIVE enforce_limits(_, _, _, _, _)
enforce_limits(segs, cache, ts, evicted, max_segs) ==
  IF Len(segs) > max_segs
  THEN LET i == OldestIndex(segs)
           oldest == segs[i]
       IN enforce_limits(RemoveAt(segs, i),
                         Pop(cache, oldest.segment_id),
                         Pop(ts, oldest.segment_id),
                         Append(evicted, oldest),
                         max_segs)
  ELSE [segs |-> segs, cache |-> cache, ts |-> ts, evicted |-> evicted]

\* ------------------------------------------------------------- Question
\* settings.english_min_confidence (default 0.8), in percent
EnglishMinConfidence == 80

\* event.language with event.language_prob in percent; "none" and -1 are None
NoLanguage == [language |-> "none", language_prob |-> -1]

\* TranscriptAggregator._is_english, with english_enforce set
is_english(language, confidence) ==
  IF language = "none" THEN TRUE
  ELSE IF confidence # -1 /\ language \notin {"en", "english"}
          /\ confidence >= EnglishMinConfidence
       THEN FALSE
  ELSE TRUE

explicit_markers ==
  { <<"?">>, <<"w", "h", "a", "t">>, <<"h", "o", "w">>, <<"w", "h", "y">>,
    <<"w", "h", "e", "n">>, <<"w", "h", "e", "r", "e">>, <<"w", "h", "o">>,
    <<"w", "h", "i", "c", "h">>, <<"w", "h", "o", "s", "e">> }

implicit_markers ==
  { <<"i", "m", "a", "g", "i", "n", "e">>,
    <<"d", "e", "s", "c", "r", "i", "b", "e">>,
    <<"s", "h", "o", "w", " ", "m", "e">>,
    <<"t", "e", "l", "l", " ", "m", "e">>,
    <<"p", "r", "e", "s", "e", "n", "t">>,
    <<"e", "x", "p", "l", "a", "i", "n">>,
    <<"w", "h", "a", "t", " ", "i", "f">>,
    <<"l", "e", "t", "'", "s", " ", "s", "a", "y">>,
    <<"s", "u", "p", "p", "o", "s", "e">>,
    <<"c", "o", "n", "s", "i", "d", "e", "r">> }

\* Question._detect_question_type: "none" for None
detect_question_type(text) ==
  LET text_lower == Strip(Lower(text)) IN
  IF \E marker \in explicit_markers : Contains(text_lower, marker)
  THEN "interrogative"
  ELSE IF \E marker \in implicit_markers : StartsWith(text_lower, marker)
  THEN "imperative"
  ELSE "none"

\* Question._generate_id: sha256 of the lowered, stripped text, taken as
\* collision free
generate_id(text) == Strip(Lower(text))

\* Question.from_segment for a segment that yields a question
from_segment(seg, t) ==
  LET text == normalize_text(seg.text) IN
  [question_id |-> generate_id(text), text |-> text,
   segment_ids |-> <<seg.segment_id>>, first_seen |-> t, last_seen |-> t,
   source_type |-> detect_question_type(text)]

\* whether Question.from_segment returns a question
YieldsQuestion(seg) ==
  seg.is_english /\ detect_question_type(normalize_text(seg.text)) # "none"

\* the position of question_id in the dict, 0 when absent
find_question(qs, question_id) ==
  IF \E i \in 1..Len(qs) : qs[i].question_id = question_id
  THEN CHOOSE i \in 1..Len(qs) : qs[i].question_id = question_id
  ELSE 0

\* the last entry of sorted(questions.items(), key=first_seen)
OldestQuestion_newest(qs) ==
  CHOOSE i \in 1..Len(qs) :
    /\ \A j \in 1..Len(qs) : qs[i].first_seen >= qs[j].first_seen
    /\ \A j \in (i + 1)..Len(qs) : qs[j].first_seen < qs[i].first_seen

\* the first entry of sorted(questions.items(), key=first_seen)
OldestQuestion(qs) ==
  CHOOSE i \in 1..Len(qs) :
    /\ \A j \in 1..Len(qs) : qs[i].first_seen <= qs[j].first_seen
    /\ \A j \in 1..(i - 1) : qs[j].first_seen > qs[i].first_seen

\* del questions[qid] for the first n entries of the sorted list
RECURSIVE RemoveOldest(_, _)
RemoveOldest(qs, n) ==
  IF n = 0 THEN qs ELSE RemoveOldest(RemoveAt(qs, OldestQuestion(qs)), n - 1)

\* TranscriptAggregator._enforce_question_limits
enforce_question_limits(qs, max_qs) ==
  IF Len(qs) > max_qs THEN RemoveOldest(qs, Len(qs) - max_qs) ELSE qs

\* a membership test that never finds the element
SeqContains_never(seq, x) == FALSE

SeqContains(seq, x) == \E i \in 1..Len(seq) : seq[i] = x

\* TranscriptAggregator._extract_questions: the question dict in insertion order
extract_questions(qs, seg, t, max_qs) ==
  IF ~YieldsQuestion(seg) THEN qs
  ELSE LET question == from_segment(seg, t)
           existing == find_question(qs, question.question_id)
       IN IF existing # 0
          THEN [qs EXCEPT
                  ![existing].segment_ids =
                     IF SeqContains(qs[existing].segment_ids, seg.segment_id)
                     THEN qs[existing].segment_ids
                     ELSE Append(qs[existing].segment_ids, seg.segment_id),
                  ![existing].last_seen = t]
          ELSE enforce_question_limits(Append(qs, question), max_qs)

VARIABLES
  segments,           \* aggregator.unconsolidated.segments
  cache,              \* aggregator._segment_text_cache
  commit_timestamps,  \* aggregator._commit_timestamps
  consolidated,       \* aggregator.consolidated: text, revision, segment_count
  committed_hashes,   \* aggregator.consolidated._committed_hashes (its keys)
  max_unconsolidated, \* settings.aggregation_max_unconsolidated_segments
  now,                \* datetime.utcnow(), in seconds
  questions,          \* aggregator.questions, in insertion order
  max_questions,      \* settings.aggregation_max_questions
  first_final,        \* history: segment id -> time of its first FINAL event
  last_rev,           \* history: segment id -> the revision last stored for it
  last,               \* history: what the last step did
  state,              \* pipeline.state
  last_error,         \* pipeline._last_error
  capture_running,    \* pipeline.audio_capture._running
  audio_task,         \* pipeline._audio_task
  client_task,        \* pipeline._client_task
  aggregator_task,    \* pipeline._aggregator_task
  client_running,     \* pipeline.whisper_client._running
  client_connected,   \* pipeline.whisper_client._connected
  sender_loops,       \* the _audio_sender tasks that have not returned
  receiver_loops,     \* the _event_receiver tasks that have not returned
  event_queue,        \* pipeline.event_queue
  queues_allocated,   \* how many times start() has replaced the two queues
  starts_waiting,     \* the start() calls inside their 1 s sleep
  stop_pc,            \* where the stop() call in progress is suspended
  call,               \* history: the pipeline step taken last
  link_pc,            \* where _whisper_client_loop is suspended
  reconnect_delay,    \* reconnect_delay of _whisper_client_loop, in DelayUnits
  slept,              \* the argument of its last sleep after a failed attempt
  waiting,            \* pipeline.whisper_client._waiting
  reconnect_count,    \* pipeline.metrics.reconnect_count
  socket,             \* pipeline.whisper_client._websocket: none, open, closed
  failures,           \* history: the failed attempts since the last success
  handshake_sent,     \* history: this session's config message was sent
  ready_received,     \* history: this session's SERVER_READY was received
  had_session,        \* history: a session of this run was established
  input_mode,         \* settings.audio_input_mode as AudioCapture.start read it
  audio_queue,        \* audio_capture.audio_queue, oldest frame first
  scheduled,          \* the put_nowait callbacks call_soon_threadsafe has queued
  put_waiting,        \* the frame _capture_file is waiting to put, or 0
  frame_count,        \* audio_capture._frame_count
  dropped_frames,     \* audio_capture._dropped_frames
  frames_read,        \* history: how many frames the input has delivered
  refused,            \* history: the frames that found audio_queue full
  taken,              \* history: the frames taken out of audio_queue
  segments_dropped,   \* pipeline.metrics.segments_dropped
  sse_clients,        \* pipeline._sse_clients: the buffer of each subscriber
  ws_clients,         \* pipeline._ws_clients: the buffer of each subscriber
  inbound,            \* history: the events made from the last inbound message
  emitted,            \* history: the events the aggregator's callback got last
  sse_queues,         \* BroadcastWorker._sse_queues: the queues, by identity
  ws_queues,          \* BroadcastWorker._ws_queues: the queues, by identity
  qsize,              \* the number of items in each subscriber queue
  subscribed,         \* the queues the transport layer has added and not removed
  worker_pc,          \* where process_message of the BroadcastWorker stands
  todo,               \* the rest of the copy of the list the worker iterates
  owed,               \* history: subscribers the current event was not offered to yet
  link_queue,         \* the frames in pipeline.audio_queue, the queue connect() is given
  frames_offered,     \* history: how many frames were put into pipeline.audio_queue
  outbound            \* history: the audio frames sent upstream, each with its session

\* the upstream link: the locals of _whisper_client_loop, the client's
\* handshake fields, and their histories
lvars == <<link_pc, reconnect_delay, slept, waiting, reconnect_count, socket,
           failures, handshake_sent, ready_received, had_session>>

\* the audio source: AudioCapture's queue and counters, and their histories
fvars == <<input_mode, audio_queue, scheduled, put_waiting, frame_count,
           dropped_frames, frames_read, refused, taken>>

\* the events on their way: the drop counter of _on_whisper_event_sync, the
\* subscribers of the pipeline, and the histories of what was produced
bvars == <<segments_dropped, sse_clients, ws_clients, inbound, emitted>>

\* the BroadcastWorker, its subscriber queues, and what it owes them
wvars == <<sse_queues, ws_queues, qsize, subscribed, worker_pc, todo, owed>>

\* the audio on its way upstream: the queue of the sender loops and what they sent
ovars == <<link_queue, frames_offered, outbound>>

\* what the pipeline state machine of start() and stop() leaves alone
xvars == <<lvars, fvars, bvars, wvars, ovars>>

\* the pipeline outside its aggregator
pvars == <<state, last_error, capture_running, audio_task, client_task,
           aggregator_task, client_running, client_connected, sender_loops,
           receiver_loops, event_queue, queues_allocated, starts_waiting,
           stop_pc, call, xvars>>

vars == <<segments, cache, commit_timestamps, consolidated, committed_hashes,
          max_unconsolidated, now, questions, max_questions,
          first_final, last_rev, last, pvars>>

NoStep == [kind |-> "none", commit_sid |-> 0, commit_from |-> "none",
           appended |-> << >>, evicted |-> << >>,
           question_sid |-> 0, questions_removed |-> << >>]

\* the same-text path without the test that the segment is not yet COMMITTED
SameTextPath_recommits(sid, is_final, t) ==
  LET existing == find_segment(segments, sid)
      sc == should_commit_segment(commit_timestamps, sid, t)
      segs1 == [segments EXCEPT ![existing].status = "committed"]
      upd == update_from_segments(consolidated, committed_hashes, segs1)
  IN IF is_final /\ sc.ok
     THEN [segments |-> segs1, cache |-> cache, ts |-> sc.ts,
           cons |-> upd.cons, hashes |-> upd.hashes,
           questions |-> extract_questions(questions, segs1[existing], t, max_questions),
           question_sid |-> sid,
           commit_sid |-> sid, commit_from |-> segments[existing].status,
           appended |-> upd.appended, evicted |-> << >>]
     ELSE [segments |-> segments, cache |-> cache,
           ts |-> IF is_final THEN sc.ts ELSE commit_timestamps,
           cons |-> consolidated, hashes |-> committed_hashes,
           questions |-> questions, question_sid |-> 0,
           commit_sid |-> 0, commit_from |-> "none",
           appended |-> << >>, evicted |-> << >>]

\* the path taken when the segment exists and the text equals the cached text
SameTextPath(sid, is_final, t) ==
  LET existing == find_segment(segments, sid)
      sc == should_commit_segment(commit_timestamps, sid, t)
      commits == is_final /\ segments[existing].status # "committed" /\ sc.ok
      segs1 == [segments EXCEPT ![existing].status = "committed"]
      upd == update_from_segments(consolidated, committed_hashes, segs1)
  IN IF commits
     THEN [segments |-> segs1, cache |-> cache, ts |-> sc.ts,
           cons |-> upd.cons, hashes |-> upd.hashes,
           questions |-> extract_questions(questions, segs1[existing], t, max_questions),
           question_sid |-> sid,
           commit_sid |-> sid, commit_from |-> segments[existing].status,
           appended |-> upd.appended, evicted |-> << >>]
     ELSE [segments |-> segments, cache |-> cache,
           ts |-> IF is_final /\ segments[existing].status # "committed"
                  THEN sc.ts ELSE commit_timestamps,
           cons |-> consolidated, hashes |-> committed_hashes,
           questions |-> questions, question_sid |-> 0,
           commit_sid |-> 0, commit_from |-> "none",
           appended |-> << >>, evicted |-> << >>]

\* the path taken otherwise: update or create, enforce the window, then commit
ChangedTextPath(sid, is_final, normalized_text, start, english, t) ==
  LET existing == find_segment(segments, sid)
      status == IF is_final THEN "final" ELSE "partial"
      cache1 == Put(cache, sid, normalized_text)
      segs1 ==
        IF existing # 0
        THEN LET mutated == [segments EXCEPT ![existing].text = normalized_text,
                                             ![existing].text_hash =
                                                compute_hash(normalized_text)]
                 new_segment ==
                   [with_updated_text(segments[existing], normalized_text, status)
                      EXCEPT !.is_english = english,
                             !.start_time =
                        IF start # 0 THEN start ELSE segments[existing].start_time]
             IN update_segment(mutated, new_segment)
        ELSE add_segment(segments,
               [segment_id |-> sid, start_time |-> start, text |-> normalized_text,
                status |-> status, revision |-> 1, created_at |-> t,
                is_english |-> english,
                text_hash |-> compute_hash(normalized_text)])
      lim == enforce_limits(segs1, cache1, commit_timestamps, << >>, max_unconsolidated)
      sc == should_commit_segment(lim.ts, sid, t)
      commits == is_final /\ sc.ok
      ci == CommitIndex(lim.segs, sid)
      segs2 == commit_segment(lim.segs, sid)
      upd == update_from_segments(consolidated, committed_hashes, segs2)
      segment == find_segment(segs2, sid)
  IN IF commits
     THEN [segments |-> segs2, cache |-> lim.cache, ts |-> sc.ts,
           cons |-> upd.cons, hashes |-> upd.hashes,
           questions |-> IF segment # 0
                         THEN extract_questions(questions, segs2[segment], t, max_questions)
                         ELSE questions,
           question_sid |-> IF segment # 0 THEN sid ELSE 0,
           commit_sid |-> IF ci # 0 THEN sid ELSE 0,
           commit_from |-> IF ci # 0 THEN lim.segs[ci].status ELSE "none",
           appended |-> upd.appended, evicted |-> lim.evicted]
     ELSE [segments |-> lim.segs, cache |-> lim.cache,
           ts |-> IF is_final THEN sc.ts ELSE lim.ts,
           cons |-> consolidated, hashes |-> committed_hashes,
           questions |-> questions, question_sid |-> 0,
           commit_sid |-> 0, commit_from |-> "none",
           appended |-> << >>, evicted |-> lim.evicted]

\* TranscriptAggregator._handle_segment_event
handle_segment_event(sid, is_final, text, start, lang, t) ==
  LET normalized_text == normalize_text(text)
      english == is_english(lang.language, lang.language_prob)
      existing == find_segment(segments, sid)
      current_text == IF sid \in DOMAIN cache THEN cache[sid] ELSE << >>
  IN IF existing # 0 /\ normalized_text = current_text
     THEN SameTextPath(sid, is_final, t)
     ELSE ChangedTextPath(sid, is_final, normalized_text, start, english, t)

RevOf(segs, sid) ==
  IF find_segment(segs, sid) = 0 THEN 0 ELSE segs[find_segment(segs, sid)].revision

\* the questions that were in the dict, or were inserted by this call, and are
\* not in it after the call
QuestionsRemoved(qs, r) ==
  LET seg == r.segments[find_segment(r.segments, r.question_sid)]
      offered == IF r.question_sid # 0 /\ YieldsQuestion(seg)
                    /\ find_question(qs, from_segment(seg, now).question_id) = 0
                 THEN Append(qs, from_segment(seg, now)) ELSE qs
  IN SelectSeq(offered, LAMBDA q : find_question(r.questions, q.question_id) = 0)

\* process_event with a PARTIAL or FINAL event
ProcessEvent(sid, is_final, text, start, lang) ==
  \E r \in {handle_segment_event(sid, is_final, text, start, lang, now)} :
  /\ RevOf(r.segments, sid) <= MaxRev
  /\ segments' = r.segments
  /\ cache' = r.cache
  /\ commit_timestamps' = r.ts
  /\ consolidated' = r.cons
  /\ committed_hashes' = r.hashes
  /\ questions' = r.questions
  /\ last' = [kind |-> "event", commit_sid |-> r.commit_sid,
              question_sid |-> r.question_sid,
              questions_removed |-> QuestionsRemoved(questions, r),
              commit_from |-> r.commit_from, appended |-> r.appended,
              evicted |-> [k \in 1..Len(r.evicted) |->
                            [segment_id |-> r.evicted[k].segment_id,
                             status |-> r.evicted[k].status,
                             created_at |-> r.evicted[k].created_at]]]
  /\ UNCHANGED <<max_unconsolidated, now, max_questions>>

\* the history of an event: the time of the first FINAL of the id
RecordFinal(sid, is_final) ==
  first_final' = IF is_final /\ sid \notin DOMAIN first_final
                 THEN Put(first_final, sid, now) ELSE first_final

\* the history of an event: the revision now stored for each id in the view
RecordRevisions ==
  last_rev' = [i \in Ids |-> IF find_segment(segments', i) # 0
                             THEN RevOf(segments', i) ELSE last_rev[i]]

Partial == \E sid \in Ids, text \in Texts :
             /\ ProcessEvent(sid, FALSE, text, StartTimeOf(sid), NoLanguage)
             /\ UNCHANGED <<first_final, last_rev, pvars>>

Final == \E sid \in Ids, text \in Texts :
           /\ ProcessEvent(sid, TRUE, text, StartTimeOf(sid), NoLanguage)
           /\ UNCHANGED <<first_final, last_rev, pvars>>

PartialRecorded == \E sid \in Ids, text \in Texts :
                     /\ ProcessEvent(sid, FALSE, text, StartTimeOf(sid), NoLanguage)
                     /\ RecordFinal(sid, FALSE)
                     /\ UNCHANGED <<last_rev, pvars>>

FinalRecorded == \E sid \in Ids, text \in Texts :
                   /\ ProcessEvent(sid, TRUE, text, StartTimeOf(sid), NoLanguage)
                   /\ RecordFinal(sid, TRUE)
                   /\ UNCHANGED <<last_rev, pvars>>

PartialRevisions == \E sid \in Ids, text \in Texts :
                      /\ ProcessEvent(sid, FALSE, text, StartTimeOf(sid), NoLanguage)
                      /\ RecordRevisions
                      /\ UNCHANGED <<first_final, pvars>>

FinalRevisions == \E sid \in Ids, text \in Texts :
                    /\ ProcessEvent(sid, TRUE, text, StartTimeOf(sid), NoLanguage)
                    /\ RecordRevisions
                    /\ UNCHANGED <<first_final, pvars>>

\* wall-clock time passes between two events
Tick ==
  /\ now < MaxTime
  /\ now' = now + 1
  /\ last' = [NoStep EXCEPT !.kind = "tick"]
  /\ UNCHANGED <<segments, cache, commit_timestamps, consolidated, committed_hashes,
                 max_unconsolidated, questions, max_questions,
                 first_final, last_rev, pvars>>

EmptyConsolidated == [text |-> << >>, revision |-> 0, segment_count |-> 0]

\* TranscriptAggregator.reset
\* consolidated._committed_hashes of the ConsolidatedTranscript that reset()
\* puts in place of the old one
reset_hashes_kept(hashes) == hashes

reset_hashes(hashes) == {}

ResetAggregator ==
  /\ segments' = << >>
  /\ cache' = EmptyDict
  /\ commit_timestamps' = EmptyDict
  /\ consolidated' = EmptyConsolidated
  /\ committed_hashes' = reset_hashes(committed_hashes)
  /\ questions' = << >>
  /\ first_final' = EmptyDict
  /\ last_rev' = [i \in Ids |-> 0]
  /\ last' = [NoStep EXCEPT !.kind = "reset"]
  /\ UNCHANGED <<max_unconsolidated, now, max_questions>>

\* reset() called on the aggregator alone
Reset == ResetAggregator /\ UNCHANGED pvars

NoCall == [op |-> "none", from |-> "STOPPED"]

\* WhisperLiveClient.__init__ and Metrics(); _whisper_client_loop has not run
InitLink ==
  /\ link_pc = "none"
  /\ reconnect_delay = BaseDelay
  /\ slept = 0
  /\ waiting = FALSE
  /\ reconnect_count = 0
  /\ socket = "none"
  /\ failures = 0
  /\ handshake_sent = FALSE
  /\ ready_received = FALSE
  /\ had_session = FALSE

\* AudioCapture.__init__; no capture has been started
InitCapture ==
  /\ input_mode = "none"
  /\ audio_queue = << >>
  /\ scheduled = << >>
  /\ put_waiting = 0
  /\ frame_count = 0
  /\ dropped_frames = 0
  /\ frames_read = 0
  /\ refused = {}
  /\ taken = << >>

\* Metrics() and the empty subscriber lists of Pipeline.__init__
InitEvents ==
  /\ segments_dropped = 0
  /\ sse_clients = << >>
  /\ ws_clients = << >>
  /\ inbound = << >>
  /\ emitted = << >>

\* BroadcastWorker.__init__, with no subscriber queue made yet
InitWorker ==
  /\ sse_queues = << >>
  /\ ws_queues = << >>
  /\ qsize = [q \in QueueIds |-> 0]
  /\ subscribed = {}
  /\ worker_pc = "idle"
  /\ todo = << >>
  /\ owed = {}

\* the audio queue of Pipeline.__init__, and nothing sent yet
InitOutbound ==
  /\ link_queue = << >>
  /\ frames_offered = 0
  /\ outbound = << >>

\* Pipeline.__init__
InitPipeline ==
  /\ state = "STOPPED"
  /\ last_error = "none"
  /\ capture_running = FALSE
  /\ audio_task = "none"
  /\ client_task = "none"
  /\ aggregator_task = "none"
  /\ client_running = FALSE
  /\ client_connected = FALSE
  /\ sender_loops = 0
  /\ receiver_loops = 0
  /\ event_queue = << >>
  /\ queues_allocated = 0
  /\ starts_waiting = 0
  /\ stop_pc = "idle"
  /\ call = NoCall
  /\ InitLink
  /\ InitCapture
  /\ InitEvents
  /\ InitWorker
  /\ InitOutbound

Init ==
  /\ segments = << >>
  /\ cache = EmptyDict
  /\ commit_timestamps = EmptyDict
  /\ consolidated = EmptyConsolidated
  /\ committed_hashes = {}
  /\ max_unconsolidated \in 1..MaxSegs
  /\ now = 0
  /\ questions = << >>
  /\ max_questions = MaxQuestions
  /\ first_final = EmptyDict
  /\ last_rev = [i \in Ids |-> 0]
  /\ last = NoStep
  /\ InitPipeline

Next == Partial \/ Final \/ Tick \/ Reset

Spec == Init /\ [][Next]_vars

\* the aggregator fed with question texts: every text as a FINAL, the first
\* one also as a PARTIAL and as a FINAL of a message detected as French
PartialQuestion == \E sid \in Ids :
                     /\ ProcessEvent(sid, FALSE, QuestionPool[1], StartTimeOf(sid), NoLanguage)
                     /\ UNCHANGED <<first_final, last_rev, pvars>>

FinalQuestion == \E sid \in Ids, text \in QuestionTexts :
                   /\ ProcessEvent(sid, TRUE, text, StartTimeOf(sid), NoLanguage)
                   /\ UNCHANGED <<first_final, last_rev, pvars>>

\* language "fr" detected with confidence 0.9
French == [language |-> "fr", language_prob |-> 90]

FinalForeign == \E sid \in Ids :
                  /\ ProcessEvent(sid, TRUE, QuestionPool[1], StartTimeOf(sid), French)
                  /\ UNCHANGED <<first_final, last_rev, pvars>>

InitQuestions ==
  /\ segments = << >>
  /\ cache = EmptyDict
  /\ commit_timestamps = EmptyDict
  /\ consolidated = EmptyConsolidated
  /\ committed_hashes = {}
  /\ max_unconsolidated = MaxSegs
  /\ now = 0
  /\ questions = << >>
  /\ max_questions \in 1..MaxQuestions
  /\ first_final = EmptyDict
  /\ last_rev = [i \in Ids |-> 0]
  /\ last = NoStep
  /\ InitPipeline

NextQuestions == PartialQuestion \/ FinalQuestion \/ FinalForeign \/ Tick \/ Reset

SpecQuestions == InitQuestions /\ [][NextQuestions]_vars

\* FINAL messages whose texts repeat, contain or reorder the consolidated text
FinalSuppression == \E sid \in Ids, text \in SuppressionTexts :
  /\ ProcessEvent(sid, TRUE, text, StartTimeOf(sid), NoLanguage)
  /\ UNCHANGED <<first_final, last_rev, pvars>>

InitSuppression == InitQuestions /\ max_questions = MaxQuestions

NextSuppression == FinalSuppression \/ Tick \/ Reset

SpecSuppression == InitSuppression /\ [][NextSuppression]_vars

\* the same aggregator with the time of each id's first FINAL recorded
NextRecorded == PartialRecorded \/ FinalRecorded \/ Tick \/ Reset

SpecRecorded == Init /\ [][NextRecorded]_vars

\* the same aggregator with the revision last stored for each id recorded
NextRevisions == PartialRevisions \/ FinalRevisions \/ Tick \/ Reset

SpecRevisions == Init /\ [][NextRevisions]_vars

\* ------------------------------------------------------------- Pipeline
\* the aggregator and its histories, as one tuple
avars == <<segments, cache, commit_timestamps, consolidated, committed_hashes,
           max_unconsolidated, now, questions, max_questions,
           first_final, last_rev, last>>

\* StreamingEvent as _convert_to_streaming_events builds it: the event type
\* and, for a segment event, the segment id and the stripped text
StreamingEvent(type, sid, text) ==
  [event_type |-> type, segment_id |-> sid, text |-> text]

\* WhisperLiveClient.is_connected
is_connected == client_connected /\ client_running

\* the while condition of _whisper_client_loop and of _aggregator_loop
LoopsOn(s) == s \in {"STARTING", "RUNNING"}

\* start() goes ahead from any state but RUNNING
StartAllowed_unless_running(s) == s # "RUNNING"

\* tasks take their first step in the order of their creation: once the
\* audio task has begun, the other two have reached their loops
TasksBegun == audio_task # "created"

\* the guard of Pipeline.start
StartAllowed(s) == s = "STOPPED"

\* a task that stop() has to cancel and await: the first of the three that
\* exists and is not done
Pending(a, c, g) ==
  IF a \notin {"none", "done"} THEN "audio"
  ELSE IF c \notin {"none", "done"} THEN "client"
  ELSE IF g \notin {"none", "done"} THEN "aggregator"
  ELSE "finish"

\* POST /control/start and Pipeline.start up to its sleep: rejected outside
\* STOPPED; otherwise STARTING, with the aggregator reset, fresh queues and
\* three new tasks
Start ==
  /\ call' = [op |-> "start", from |-> state]
  /\ IF ~StartAllowed(state)
     THEN UNCHANGED <<xvars, avars, state, last_error, capture_running, audio_task,
                      client_task, aggregator_task, client_running,
                      client_connected, sender_loops, receiver_loops,
                      event_queue, queues_allocated, starts_waiting, stop_pc>>
     ELSE /\ queues_allocated < MaxStarts
          /\ state' = "STARTING"
          /\ last_error' = "none"
          /\ ResetAggregator
          /\ event_queue' = << >>
          /\ queues_allocated' = queues_allocated + 1
          /\ audio_task' = "created"
          /\ client_task' = "running"
          /\ aggregator_task' = "running"
          /\ starts_waiting' = starts_waiting + 1
          /\ UNCHANGED <<xvars, capture_running, client_running,
                         client_connected, sender_loops, receiver_loops,
                         stop_pc>>

\* Pipeline.start after its sleep; the tasks it created have run by then
StartResume ==
  /\ starts_waiting > 0
  /\ TasksBegun
  /\ state' = IF capture_running THEN "RUNNING" ELSE "DEGRADED"
  /\ starts_waiting' = starts_waiting - 1
  /\ call' = [op |-> "start_resume", from |-> state]
  /\ UNCHANGED <<xvars, avars, last_error, capture_running, audio_task, client_task,
                 aggregator_task, client_running, client_connected,
                 sender_loops, receiver_loops, event_queue, queues_allocated,
                 stop_pc>>

\* _audio_capture_loop up to the first suspension of AudioCapture.start: the
\* capture runs, or it raises before _running is set (no input file), or it
\* raises after _running is set (no input device)
AudioBegin ==
  /\ audio_task = "created"
  /\ \E outcome \in {"capturing", "raised_early", "raised_late"} :
       /\ capture_running' = IF outcome = "raised_early" THEN capture_running ELSE TRUE
       /\ audio_task' = IF outcome = "capturing" THEN "running" ELSE "done"
       /\ last_error' = IF outcome = "capturing" THEN last_error ELSE "audio"
       /\ state' = IF outcome = "capturing" THEN state ELSE "ERROR"
       /\ call' = [op |-> IF outcome = "capturing" THEN "audio" ELSE "audio_raised",
                   from |-> state]
  /\ UNCHANGED <<xvars, avars, client_task, aggregator_task, client_running,
                 client_connected, sender_loops, receiver_loops, event_queue,
                 queues_allocated, starts_waiting, stop_pc>>

\* the capture raises during a run
AudioFail ==
  /\ audio_task = "running"
  /\ audio_task' = "done"
  /\ last_error' = "audio"
  /\ state' = "ERROR"
  /\ call' = [op |-> "audio_raised", from |-> state]
  /\ UNCHANGED <<xvars, avars, capture_running, client_task, aggregator_task,
                 client_running, client_connected, sender_loops,
                 receiver_loops, event_queue, queues_allocated,
                 starts_waiting, stop_pc>>

\* the capture returns: the input file ended, or stop() cleared _running
AudioExit ==
  /\ audio_task = "running"
  /\ audio_task' = "done"
  /\ call' = [op |-> "audio", from |-> state]
  /\ UNCHANGED <<xvars, avars, state, last_error, capture_running, client_task,
                 aggregator_task, client_running, client_connected,
                 sender_loops, receiver_loops, event_queue, queues_allocated,
                 starts_waiting, stop_pc>>

\* one round of _whisper_client_loop while not connected:
\* WhisperLiveClient.connect succeeds and spawns the two loops, fails, or
\* raises out of its failure path
ClientConnect ==
  /\ client_task = "running"
  /\ TasksBegun
  /\ LoopsOn(state)
  /\ ~is_connected
  /\ \E outcome \in {"connected", "failed", "raised"} :
       /\ outcome = "connected" => sender_loops < MaxLoops /\ receiver_loops < MaxLoops
       /\ client_running' = (outcome # "failed")
       /\ client_connected' = (outcome = "connected")
       /\ sender_loops' = IF outcome = "connected" THEN sender_loops + 1 ELSE sender_loops
       /\ receiver_loops' = IF outcome = "connected" THEN receiver_loops + 1 ELSE receiver_loops
       /\ last_error' = IF outcome = "raised" THEN "client" ELSE last_error
  /\ call' = [op |-> "client", from |-> state]
  /\ UNCHANGED <<xvars, avars, state, capture_running, audio_task, client_task,
                 aggregator_task, event_queue, queues_allocated,
                 starts_waiting, stop_pc>>

\* WhisperLiveClient.close
CloseClient ==
  /\ client_running' = FALSE
  /\ client_connected' = FALSE

\* _whisper_client_loop leaves its while loop and closes a connected client
ClientExit ==
  /\ client_task = "running"
  /\ TasksBegun
  /\ ~LoopsOn(state)
  /\ client_task' = "done"
  /\ IF is_connected THEN CloseClient
     ELSE UNCHANGED <<client_running, client_connected>>
  /\ call' = [op |-> "client", from |-> state]
  /\ UNCHANGED <<xvars, avars, state, last_error, capture_running, audio_task,
                 aggregator_task, sender_loops, receiver_loops, event_queue,
                 queues_allocated, starts_waiting, stop_pc>>

\* _event_receiver hands a segment message to _on_whisper_event_sync, which
\* puts a FINAL event in event_queue
ReceiverEvent ==
  /\ receiver_loops > 0
  /\ client_running
  /\ Len(event_queue) < MaxQueue
  /\ event_queue' = Append(event_queue, StreamingEvent("final", 1, TextPool[1]))
  /\ call' = [op |-> "receiver", from |-> state]
  /\ UNCHANGED <<xvars, avars, state, last_error, capture_running, audio_task,
                 client_task, aggregator_task, client_running,
                 client_connected, sender_loops, receiver_loops,
                 queues_allocated, starts_waiting, stop_pc>>

\* _event_receiver gets DISCONNECT or finds the connection closed
ReceiverDisconnect ==
  /\ receiver_loops > 0
  /\ client_running
  /\ client_connected' = FALSE
  /\ receiver_loops' = receiver_loops - 1
  /\ call' = [op |-> "receiver", from |-> state]
  /\ UNCHANGED <<xvars, avars, state, last_error, capture_running, audio_task,
                 client_task, aggregator_task, client_running, sender_loops,
                 event_queue, queues_allocated, starts_waiting, stop_pc>>

\* _event_receiver finds _running cleared
ReceiverExit ==
  /\ receiver_loops > 0
  /\ ~client_running
  /\ receiver_loops' = receiver_loops - 1
  /\ call' = [op |-> "receiver", from |-> state]
  /\ UNCHANGED <<xvars, avars, state, last_error, capture_running, audio_task,
                 client_task, aggregator_task, client_running,
                 client_connected, sender_loops, event_queue,
                 queues_allocated, starts_waiting, stop_pc>>

\* _audio_sender finds _running cleared
SenderExit ==
  /\ sender_loops > 0
  /\ ~client_running
  /\ sender_loops' = sender_loops - 1
  /\ call' = [op |-> "sender", from |-> state]
  /\ UNCHANGED <<xvars, avars, state, last_error, capture_running, audio_task,
                 client_task, aggregator_task, client_running,
                 client_connected, receiver_loops, event_queue,
                 queues_allocated, starts_waiting, stop_pc>>

\* one round of _aggregator_loop: an event is taken and processed
AggregatorRound ==
  /\ aggregator_task = "running"
  /\ TasksBegun
  /\ LoopsOn(state)
  /\ event_queue # << >>
  /\ IF Head(event_queue).event_type \in {"partial", "final"}
     THEN ProcessEvent(Head(event_queue).segment_id,
                       Head(event_queue).event_type = "final",
                       Head(event_queue).text,
                       StartTimeOf(Head(event_queue).segment_id), NoLanguage)
     ELSE UNCHANGED <<segments, cache, commit_timestamps, consolidated,
                      committed_hashes, max_unconsolidated, now, questions,
                      max_questions, last>>
  /\ event_queue' = Tail(event_queue)
  /\ call' = [op |-> "aggregator", from |-> state]
  /\ UNCHANGED <<first_final, last_rev, state, last_error,
                 capture_running, audio_task, client_task, aggregator_task,
                 client_running, client_connected, sender_loops,
                 receiver_loops, queues_allocated, starts_waiting, stop_pc>>

\* the same round where the subscribers and the link are not looked at
AggregatorStep == AggregatorRound /\ UNCHANGED xvars

\* _aggregator_loop leaves its while loop
AggregatorExit ==
  /\ aggregator_task = "running"
  /\ TasksBegun
  /\ ~LoopsOn(state)
  /\ aggregator_task' = "done"
  /\ call' = [op |-> "aggregator", from |-> state]
  /\ UNCHANGED <<xvars, avars, state, last_error, capture_running, audio_task,
                 client_task, client_running, client_connected, sender_loops,
                 receiver_loops, event_queue, queues_allocated,
                 starts_waiting, stop_pc>>

\* stop() from AudioCapture.stop on: the first task to cancel and await is
\* chosen, and without one the pipeline is STOPPED at once
StopTasks ==
  /\ capture_running' = FALSE
  /\ stop_pc' = IF Pending(audio_task, client_task, aggregator_task) = "finish"
                THEN "idle"
                ELSE Pending(audio_task, client_task, aggregator_task)
  /\ state' = IF Pending(audio_task, client_task, aggregator_task) = "finish"
              THEN "STOPPED" ELSE "STOPPING"

\* POST /control/stop and Pipeline.stop up to its first suspension
Stop ==
  /\ stop_pc = "idle"
  /\ call' = [op |-> "stop", from |-> state]
  /\ IF state = "STOPPED"
     THEN UNCHANGED <<state, capture_running, stop_pc>>
     ELSE IF is_connected
     THEN /\ state' = "STOPPING"
          /\ stop_pc' = "closing"
          /\ UNCHANGED capture_running
     ELSE StopTasks
  /\ UNCHANGED <<xvars, avars, last_error, audio_task, client_task, aggregator_task,
                 client_running, client_connected, sender_loops,
                 receiver_loops, event_queue, queues_allocated,
                 starts_waiting>>

\* stop() after send_end_of_audio: the client is closed, the capture stopped
StopClose ==
  /\ stop_pc = "closing"
  /\ CloseClient
  /\ StopTasks
  /\ call' = [op |-> "stop_close", from |-> state]
  /\ UNCHANGED <<xvars, avars, last_error, audio_task, client_task, aggregator_task,
                 sender_loops, receiver_loops, event_queue, queues_allocated,
                 starts_waiting>>

\* stop() awaiting a cancelled task: the task ends (a cancelled client loop
\* closes a connected client), then the next task is awaited or stop() ends
StopAwait ==
  /\ stop_pc \in {"audio", "client", "aggregator"}
  /\ \E a \in {IF stop_pc = "audio" THEN "done" ELSE audio_task},
        c \in {IF stop_pc = "client" THEN "done" ELSE client_task},
        g \in {IF stop_pc = "aggregator" THEN "done" ELSE aggregator_task} :
       /\ audio_task' = a
       /\ client_task' = c
       /\ aggregator_task' = g
       /\ stop_pc' = IF Pending(a, c, g) = "finish" THEN "idle" ELSE Pending(a, c, g)
       /\ state' = IF Pending(a, c, g) = "finish" THEN "STOPPED" ELSE state
  /\ IF stop_pc = "client" /\ client_task # "done" /\ is_connected
     THEN CloseClient
     ELSE UNCHANGED <<client_running, client_connected>>
  /\ call' = [op |-> "stop_await", from |-> state]
  /\ UNCHANGED <<xvars, avars, last_error, capture_running, sender_loops,
                 receiver_loops, event_queue, queues_allocated,
                 starts_waiting>>

NextPipeline ==
  \/ Start \/ StartResume
  \/ AudioBegin \/ AudioFail \/ AudioExit
  \/ ClientConnect \/ ClientExit
  \/ ReceiverEvent \/ ReceiverDisconnect \/ ReceiverExit \/ SenderExit
  \/ AggregatorStep \/ AggregatorExit
  \/ Stop \/ StopClose \/ StopAwait

\* Pipeline.__init__ with its aggregator
InitStopped == InitQuestions /\ max_questions = MaxQuestions

SpecPipeline == InitStopped /\ [][NextPipeline]_vars

\* --------------------------------------------------------- upstream link
Min(a, b) == IF a <= b THEN a ELSE b

\* the failure branch of _whisper_client_loop: the delay grows only after WAIT
\* (the quotient is rounded down only above the clamp)
next_delay(delay, was_waiting) ==
  IF was_waiting THEN Min((delay * 3) \div 2, MaxDelay) ELSE delay

\* reconnect_delay * random.uniform(0.8, 1.2)
jittered(delay, tenths) == (delay * tenths) \div 10

\* the except branch of _whisper_client_loop
raised_delay(delay) == Min(delay * 2, MaxDelay)

\* a WAIT answer is taken like SERVER_READY
wait_for_ready_wait_connects(msg) ==
  [ready |-> msg \in {"SERVER_READY", "WAIT"}, waiting |-> msg = "WAIT"]

\* _wait_for_ready on one JSON message or on the 30 s timeout: whether it
\* returns True with _connected set, and whether _waiting is set
wait_for_ready(msg) ==
  [ready |-> msg = "SERVER_READY", waiting |-> msg = "WAIT"]

\* what the upstream link leaves alone
outside_link == <<avars, fvars, bvars, wvars, ovars, state, capture_running, audio_task,
                  aggregator_task, queues_allocated, starts_waiting, stop_pc>>

\* the client loop has taken its first step
LinkBegun == ~(client_task = "running" /\ link_pc = "none")

\* connect() returned False: the delay, the jitter, the sleep
FailedAttempt(was_waiting, tenths) ==
  /\ reconnect_delay' = next_delay(reconnect_delay, was_waiting)
  /\ slept' = jittered(next_delay(reconnect_delay, was_waiting), tenths)
  /\ failures' = failures + 1
  /\ link_pc' = "sleeping"

\* the top of the while loop of _whisper_client_loop, up to the next
\* suspension: the loop is left (closing a connected client), or connect()
\* sets its flags and opens the transport, or the loop sleeps 1 s
LoopTop ==
  IF ~LoopsOn(state)
  THEN /\ client_task' = "done"
       /\ link_pc' = "none"
       /\ IF is_connected THEN CloseClient /\ socket' = "closed"
          ELSE UNCHANGED <<client_running, client_connected, socket>>
       /\ UNCHANGED <<waiting, handshake_sent, ready_received>>
  ELSE IF ~is_connected
  THEN /\ failures < MaxFailures
       /\ client_running' = TRUE
       /\ client_connected' = FALSE
       /\ waiting' = FALSE
       /\ handshake_sent' = FALSE
       /\ ready_received' = FALSE
       /\ link_pc' = "opening"
       /\ UNCHANGED <<client_task, socket>>
  ELSE /\ link_pc' = "pausing"
       /\ UNCHANGED <<client_task, client_running, client_connected, socket,
                      waiting, handshake_sent, ready_received>>

\* the first step of the task of _whisper_client_loop
LinkBegin ==
  /\ client_task = "running"
  /\ TasksBegun
  /\ link_pc = "none"
  /\ reconnect_delay' = BaseDelay
  /\ LoopTop
  /\ call' = [op |-> "link_begin", from |-> state]
  /\ UNCHANGED <<outside_link, last_error, sender_loops, receiver_loops,
                 event_queue, slept, reconnect_count, failures, had_session>>

\* a sleep of _whisper_client_loop ends and the loop goes round
LinkWake ==
  /\ client_task = "running"
  /\ link_pc \in {"sleeping", "pausing"}
  /\ LoopTop
  /\ call' = [op |-> "link_wake", from |-> state]
  /\ UNCHANGED <<outside_link, last_error, sender_loops, receiver_loops,
                 event_queue, reconnect_delay, slept, reconnect_count,
                 failures, had_session>>

\* _connect returns: the transport is open and _send_config sends, or the
\* open failed or timed out and connect() returns False
ConnectOpened ==
  /\ client_task = "running"
  /\ link_pc = "opening"
  /\ \E outcome \in {"opened", "refused"}, tenths \in JitterTenths :
       IF outcome = "opened"
       THEN /\ tenths = 10
            /\ socket' = "open"
            /\ link_pc' = "sending"
            /\ UNCHANGED <<client_running, reconnect_delay, slept, failures>>
       ELSE /\ client_running' = FALSE
            /\ FailedAttempt(waiting, tenths)
            /\ UNCHANGED socket
  /\ call' = [op |-> "link_open", from |-> state]
  /\ UNCHANGED <<outside_link, last_error, client_task, client_connected,
                 sender_loops, receiver_loops, event_queue, waiting,
                 reconnect_count, handshake_sent, ready_received,
                 had_session>>

\* _send_config returns: the config message was sent and _wait_for_ready
\* reads; or the send failed and the transport is closed, after which
\* connect() returns False, or the close raises into the except branch of
\* _whisper_client_loop
ConfigSent ==
  /\ client_task = "running"
  /\ link_pc = "sending"
  /\ \E outcome \in {"sent", "failed", "close_raised"}, tenths \in JitterTenths :
       CASE outcome = "sent" ->
              /\ tenths = 10
              /\ handshake_sent' = TRUE
              /\ link_pc' = "awaiting"
              /\ UNCHANGED <<client_running, socket, last_error,
                             reconnect_delay, slept, failures>>
         [] outcome = "failed" ->
              /\ socket' = "closed"
              /\ client_running' = FALSE
              /\ FailedAttempt(waiting, tenths)
              /\ UNCHANGED <<handshake_sent, last_error>>
         [] outcome = "close_raised" ->
              /\ tenths = 10
              /\ last_error' = "client"
              /\ reconnect_delay' = raised_delay(reconnect_delay)
              /\ slept' = raised_delay(reconnect_delay)
              /\ failures' = failures + 1
              /\ link_pc' = "sleeping"
              /\ UNCHANGED <<client_running, socket, handshake_sent>>
  /\ call' = [op |-> "link_config", from |-> state]
  /\ UNCHANGED <<outside_link, client_task, client_connected, sender_loops,
                 receiver_loops, event_queue, waiting, reconnect_count,
                 ready_received, had_session>>

\* _wait_for_ready ends. SERVER_READY and WAIT are JSON messages, handed to
\* _on_whisper_event_sync first; binary, invalid and other messages leave
\* the wait where it is. On SERVER_READY connect() spawns the two loops and
\* _whisper_client_loop counts the connection and sleeps 1 s; on WAIT and on
\* the timeout the transport is closed and connect() returns False
ReadyMessage ==
  /\ client_task = "running"
  /\ link_pc = "awaiting"
  /\ \E msg \in {"SERVER_READY", "WAIT", "timeout"}, tenths \in JitterTenths :
       /\ event_queue' = IF msg = "timeout" THEN event_queue
                         ELSE Append(event_queue,
                                     StreamingEvent(IF msg = "WAIT" THEN "wait"
                                                    ELSE "server_ready", 0, << >>))
       /\ msg # "timeout" => Len(event_queue) < MaxQueue
       /\ waiting' = wait_for_ready(msg).waiting
       /\ IF wait_for_ready(msg).ready
          THEN /\ tenths = 10
               /\ reconnect_count < MaxConnects
               /\ client_connected' = TRUE
               /\ ready_received' = (msg = "SERVER_READY")
               /\ had_session' = TRUE
               /\ sender_loops' = sender_loops + 1
               /\ receiver_loops' = receiver_loops + 1
               /\ reconnect_count' = reconnect_count + 1
               /\ reconnect_delay' = BaseDelay
               /\ failures' = 0
               /\ link_pc' = "pausing"
               /\ UNCHANGED <<client_running, socket, slept>>
          ELSE /\ socket' = "closed"
               /\ client_running' = FALSE
               /\ FailedAttempt(wait_for_ready(msg).waiting, tenths)
               /\ UNCHANGED <<client_connected, ready_received, had_session,
                              sender_loops, receiver_loops, reconnect_count>>
  /\ call' = [op |-> "link_ready", from |-> state]
  /\ UNCHANGED <<outside_link, last_error, client_task, handshake_sent>>

\* Pipeline.start after its sleep, by which the client loop has begun
LinkStartResume == LinkBegun /\ StartResume

NextLink ==
  \/ Start \/ LinkStartResume \/ AudioBegin
  \/ LinkBegin \/ LinkWake \/ ConnectOpened \/ ConfigSent \/ ReadyMessage
  \/ ReceiverDisconnect \/ SenderExit
  \/ AggregatorStep \/ AggregatorExit

SpecLink == InitStopped /\ [][NextLink]_vars

\* ----------------------------------------------------------- AudioCapture
\* what the audio source leaves alone
outside_capture == <<avars, lvars, bvars, wvars, ovars, state, last_error, capture_running,
                     audio_task, client_task, aggregator_task, client_running,
                     client_connected, sender_loops, receiver_loops,
                     event_queue, queues_allocated, starts_waiting, stop_pc>>

\* asyncio.Queue.full
Full(queue, maxsize) == Len(queue) >= maxsize

\* _dropped_frames after put_nowait raised QueueFull inside the callback
\* that call_soon_threadsafe queued: the event loop runs that callback after
\* audio_callback has returned, so its except clause does not see the error
dropped_after_refusal(dropped, mode) ==
  IF mode = "microphone" THEN dropped ELSE dropped + 1

\* AudioCapture.start: the counters are cleared and the mode is read
CaptureStart ==
  /\ input_mode = "none"
  /\ \E mode \in {"microphone", "file"} : input_mode' = mode
  /\ frame_count' = 0
  /\ dropped_frames' = 0
  /\ call' = [op |-> "capture_start", from |-> state]
  /\ UNCHANGED <<outside_capture, audio_queue, scheduled, put_waiting,
                 frames_read, refused, taken>>

\* audio_callback on the capture thread: the put is handed to the event loop
\* and the frame is counted
MicrophoneFrame ==
  /\ input_mode = "microphone"
  /\ frames_read < MaxFrames
  /\ frames_read' = frames_read + 1
  /\ scheduled' = Append(scheduled, frames_read + 1)
  /\ frame_count' = frame_count + 1
  /\ call' = [op |-> "audio_callback", from |-> state]
  /\ UNCHANGED <<outside_capture, input_mode, audio_queue, put_waiting,
                 dropped_frames, refused, taken>>

\* the event loop runs a queued put_nowait: the frame goes into the queue,
\* or QueueFull is raised in the loop's callback
ScheduledPut ==
  /\ scheduled # << >>
  /\ scheduled' = Tail(scheduled)
  /\ IF Full(audio_queue, MaxAudioQueue)
     THEN /\ refused' = refused \cup {Head(scheduled)}
          /\ dropped_frames' = dropped_after_refusal(dropped_frames, input_mode)
          /\ UNCHANGED audio_queue
     ELSE /\ audio_queue' = Append(audio_queue, Head(scheduled))
          /\ UNCHANGED <<refused, dropped_frames>>
  /\ call' = [op |-> "scheduled_put", from |-> state]
  /\ UNCHANGED <<outside_capture, input_mode, put_waiting, frame_count,
                 frames_read, taken>>

\* _capture_file reads a frame and puts it: at once when the queue has
\* room, else the put waits
FileFrame ==
  /\ input_mode = "file"
  /\ put_waiting = 0
  /\ frames_read < MaxFrames
  /\ frames_read' = frames_read + 1
  /\ IF Full(audio_queue, MaxAudioQueue)
     THEN /\ put_waiting' = frames_read + 1
          /\ UNCHANGED <<audio_queue, frame_count>>
     ELSE /\ audio_queue' = Append(audio_queue, frames_read + 1)
          /\ frame_count' = frame_count + 1
          /\ UNCHANGED put_waiting
  /\ call' = [op |-> "file_frame", from |-> state]
  /\ UNCHANGED <<outside_capture, input_mode, scheduled, dropped_frames,
                 refused, taken>>

\* the waiting put of _capture_file ends: room was made within the second
\* and the frame is queued and counted, or the put times out
FilePutEnds ==
  /\ put_waiting # 0
  /\ put_waiting' = 0
  /\ IF Full(audio_queue, MaxAudioQueue)
     THEN /\ refused' = refused \cup {put_waiting}
          /\ dropped_frames' = dropped_after_refusal(dropped_frames, input_mode)
          /\ UNCHANGED <<audio_queue, frame_count>>
     ELSE /\ audio_queue' = Append(audio_queue, put_waiting)
          /\ frame_count' = frame_count + 1
          /\ UNCHANGED <<refused, dropped_frames>>
  /\ call' = [op |-> "file_put", from |-> state]
  /\ UNCHANGED <<outside_capture, input_mode, scheduled, frames_read, taken>>

\* the consumer of the queue takes the oldest frame (audio_queue.get in
\* _audio_sender)
AudioGet ==
  /\ audio_queue # << >>
  /\ audio_queue' = Tail(audio_queue)
  /\ taken' = Append(taken, Head(audio_queue))
  /\ call' = [op |-> "audio_get", from |-> state]
  /\ UNCHANGED <<outside_capture, input_mode, scheduled, put_waiting,
                 frame_count, dropped_frames, frames_read, refused>>

NextCapture ==
  \/ CaptureStart \/ MicrophoneFrame \/ ScheduledPut
  \/ FileFrame \/ FilePutEnds \/ AudioGet

SpecCapture == InitStopped /\ [][NextCapture]_vars

\* ------------------------------------------------- events and subscribers
\* an inbound JSON object: its message and status fields, whether it has a
\* language field, and its segments (upstream id, completed, text)
Message(message, status, language, segs) ==
  [message |-> message, status |-> status, language |-> language,
   segments |-> segs]

\* the messages the receive loop is given
Messages ==
  { Message("", "ERROR", FALSE, << >>),
    Message("", "", FALSE, <<[id |-> 1, start |-> StartTimeOf(1), completed |-> TRUE,
                             text |-> TextPool[1]]>>),
    Message("", "", TRUE, <<[id |-> 1, start |-> StartTimeOf(1), completed |-> TRUE,
                            text |-> TextPool[1]],
                           [id |-> 2, start |-> StartTimeOf(2), completed |-> FALSE,
                            text |-> TextPool[4]]>>) }

\* seg.get("id") of a segment that has no id field (None)
NoId == -1

\* f"{start_time:.3f}_{i}": a string, so never equal to an upstream integer
\* id; it is written here as a negative number, one for each (start, i)
synthesized_id(start, i) == 0 - (i + 2 + MaxPerMessage * start)

\* seg.get("id") or f"{start_time:.3f}_{i}": None and 0 are both falsy
stable_id(seg, i) ==
  IF seg.id # NoId /\ seg.id # 0 THEN seg.id ELSE synthesized_id(seg.start, i)

\* the loop over the segments in _convert_to_streaming_events; enumerate()
\* counts from 0
SegmentEvents(segs) ==
  [i \in 1..Len(segs) |->
     StreamingEvent(IF segs[i].completed THEN "final" ELSE "partial",
                    stable_id(segs[i], i - 1), Strip(segs[i].text))]

\* Pipeline._convert_to_streaming_events
convert_to_streaming_events(msg) ==
  IF msg.message = "SERVER_READY" THEN <<StreamingEvent("server_ready", 0, << >>)>>
  ELSE IF msg.message = "DISCONNECT" THEN <<StreamingEvent("disconnect", 0, << >>)>>
  ELSE IF msg.status = "WAIT" THEN <<StreamingEvent("wait", 0, << >>)>>
  ELSE IF msg.status = "ERROR" THEN <<StreamingEvent("error", 0, << >>)>>
  ELSE (IF msg.language THEN <<StreamingEvent("language_detected", 0, << >>)>>
        ELSE << >>)
       \o SegmentEvents(msg.segments)

\* the loop gives up at the first event that finds the queue full
RECURSIVE put_events_gives_up(_, _, _)
put_events_gives_up(queue, events, maxsize) ==
  IF events = << >> THEN [queue |-> queue, dropped |-> 0]
  ELSE IF Full(queue, maxsize) THEN [queue |-> queue, dropped |-> 1]
  ELSE put_events_gives_up(Append(queue, Head(events)), Tail(events), maxsize)

\* the loop of _on_whisper_event_sync: put_nowait for each event in turn,
\* and one more dropped event for each QueueFull
RECURSIVE put_events(_, _, _)
put_events(queue, events, maxsize) ==
  IF events = << >> THEN [queue |-> queue, dropped |-> 0]
  ELSE IF Full(queue, maxsize)
  THEN [queue |-> put_events(queue, Tail(events), maxsize).queue,
        dropped |-> put_events(queue, Tail(events), maxsize).dropped + 1]
  ELSE put_events(Append(queue, Head(events)), Tail(events), maxsize)

\* _event_receiver hands an inbound message to _on_whisper_event_sync
ReceiverMessage ==
  /\ receiver_loops > 0
  /\ client_running
  /\ \E msg \in Messages :
       \E r \in {put_events(event_queue, convert_to_streaming_events(msg), MaxQueue)} :
         /\ segments_dropped + r.dropped <= MaxDropped
         /\ inbound' = convert_to_streaming_events(msg)
         /\ event_queue' = r.queue
         /\ segments_dropped' = segments_dropped + r.dropped
  /\ call' = [op |-> "message", from |-> state]
  /\ UNCHANGED <<avars, lvars, fvars, wvars, ovars, sse_clients, ws_clients, emitted, state,
                 last_error, capture_running, audio_task, client_task,
                 aggregator_task, client_running, client_connected,
                 sender_loops, receiver_loops, queues_allocated,
                 starts_waiting, stop_pc>>

\* the SYSTEM event of _emit_system_event and of _extract_questions
SystemEvent(kind, sid) == [event_type |-> "system", kind |-> kind, segment_id |-> sid]

\* the calls of the aggregator's event callback, given the outcome r of the
\* handler: question_extracted when a question comes out of the commit,
\* then segment_updated unless the text was the cached one
EmittedFrom(r, sid, known) ==
  (IF r.question_sid # 0
      /\ YieldsQuestion(r.segments[find_segment(r.segments, r.question_sid)])
   THEN <<SystemEvent("question_extracted", sid)>> ELSE << >>)
  \o (IF known THEN << >> ELSE <<SystemEvent("segment_updated", sid)>>)

\* the events the aggregator emits while it handles the event ev
EmittedBy(ev) ==
  IF ev.event_type \notin {"partial", "final"} THEN << >>
  ELSE EmittedFrom(handle_segment_event(ev.segment_id, ev.event_type = "final",
                                        ev.text, StartTimeOf(ev.segment_id),
                                        NoLanguage, now),
                   ev.segment_id,
                   /\ find_segment(segments, ev.segment_id) # 0
                   /\ ev.segment_id \in DOMAIN cache
                   /\ normalize_text(ev.text) = cache[ev.segment_id])

\* _on_aggregator_event_sync: the coroutine of _broadcast_event is made and
\* never awaited or scheduled, so no subscriber buffer is touched
on_aggregator_event_sync(clients, events) == clients

\* a round of _aggregator_loop with the calls of the event callback
AggregatorEmits ==
  /\ AggregatorRound
  /\ \E events \in {EmittedBy(Head(event_queue))} :
       /\ emitted' = events
       /\ sse_clients' = on_aggregator_event_sync(sse_clients, events)
       /\ ws_clients' = on_aggregator_event_sync(ws_clients, events)
  /\ UNCHANGED <<lvars, fvars, wvars, ovars, segments_dropped, inbound>>

\* what a change of the subscriber lists leaves alone
outside_subscribers == <<avars, lvars, fvars, wvars, ovars, segments_dropped, inbound, emitted,
                         state, last_error, capture_running, audio_task,
                         client_task, aggregator_task, client_running,
                         client_connected, sender_loops, receiver_loops,
                         event_queue, queues_allocated, starts_waiting, stop_pc>>

\* the list without its i-th buffer
Without(clients, i) ==
  [k \in 1..(Len(clients) - 1) |-> IF k < i THEN clients[k] ELSE clients[k + 1]]

\* GET /stream/sse: Pipeline.add_sse_client
AddSseClient ==
  /\ Len(sse_clients) < MaxSubscribers
  /\ sse_clients' = Append(sse_clients, << >>)
  /\ call' = [op |-> "add_sse_client", from |-> state]
  /\ UNCHANGED <<outside_subscribers, ws_clients>>

\* the SSE handler ends: Pipeline.remove_sse_client
RemoveSseClient ==
  /\ \E i \in 1..Len(sse_clients) : sse_clients' = Without(sse_clients, i)
  /\ call' = [op |-> "remove_sse_client", from |-> state]
  /\ UNCHANGED <<outside_subscribers, ws_clients>>

\* the websocket endpoint: Pipeline.add_ws_client
AddWsClient ==
  /\ Len(ws_clients) < MaxSubscribers
  /\ ws_clients' = Append(ws_clients, << >>)
  /\ call' = [op |-> "add_ws_client", from |-> state]
  /\ UNCHANGED <<outside_subscribers, sse_clients>>

\* the websocket handler ends: Pipeline.remove_ws_client
RemoveWsClient ==
  /\ \E i \in 1..Len(ws_clients) : ws_clients' = Without(ws_clients, i)
  /\ call' = [op |-> "remove_ws_client", from |-> state]
  /\ UNCHANGED <<outside_subscribers, sse_clients>>

NextEvents ==
  \/ Start \/ StartResume \/ AudioBegin \/ ClientConnect
  \/ ReceiverMessage \/ AggregatorEmits

SpecEvents == InitStopped /\ [][NextEvents]_vars

NextSubscribers ==
  \/ Start \/ AudioBegin \/ ClientConnect
  \/ ReceiverMessage \/ AggregatorEmits
  \/ AddSseClient \/ RemoveSseClient \/ AddWsClient \/ RemoveWsClient

SpecSubscribers == InitStopped /\ [][NextSubscribers]_vars

\* ------------------------------------------------------------
\* BroadcastWorker (redis_workers.py) and the subscriber queues that
\* RedisPipeline (redis_pipeline.py) makes for the streaming handlers

\* what the worker and its subscribers leave alone
outside_worker == <<avars, lvars, fvars, bvars, ovars, state, last_error,
                    capture_running, audio_task, client_task, aggregator_task,
                    client_running, client_connected, sender_loops,
                    receiver_loops, event_queue, queues_allocated,
                    starts_waiting, stop_pc>>

\* the queues of a list
Range(queues) == {queues[k] : k \in 1..Len(queues)}

\* remove_sse_client / remove_ws_client of the worker: the first occurrence
\* of the queue leaves the list, if there is one
remove_client(queues, q) ==
  IF q \notin Range(queues) THEN queues
  ELSE Without(queues, CHOOSE k \in 1..Len(queues) :
                         /\ queues[k] = q
                         /\ \A j \in 1..(k - 1) : queues[j] # q)

\* RedisPipeline.add_sse_client: a new empty queue is made and added
WorkerAddSseClient ==
  /\ \E q \in QueueIds \ (subscribed \cup Range(todo)) :
       /\ sse_queues' = Append(sse_queues, q)
       /\ qsize' = [qsize EXCEPT ![q] = 0]
       /\ subscribed' = subscribed \cup {q}
  /\ call' = [op |-> "add_sse_client", from |-> state]
  /\ UNCHANGED <<outside_worker, ws_queues, worker_pc, todo, owed>>

\* RedisPipeline.add_ws_client
WorkerAddWsClient ==
  /\ \E q \in QueueIds \ (subscribed \cup Range(todo)) :
       /\ ws_queues' = Append(ws_queues, q)
       /\ qsize' = [qsize EXCEPT ![q] = 0]
       /\ subscribed' = subscribed \cup {q}
  /\ call' = [op |-> "add_ws_client", from |-> state]
  /\ UNCHANGED <<outside_worker, sse_queues, worker_pc, todo, owed>>

\* RedisPipeline.remove_sse_client / remove_ws_client: the streaming handler
\* of the subscriber ends, and the worker drops the queue from its lists
WorkerRemoveClient ==
  /\ \E q \in subscribed :
       /\ sse_queues' = remove_client(sse_queues, q)
       /\ ws_queues' = remove_client(ws_queues, q)
       /\ subscribed' = subscribed \ {q}
       /\ owed' = owed \ {q}
  /\ call' = [op |-> "remove_client", from |-> state]
  /\ UNCHANGED <<outside_worker, qsize, worker_pc, todo>>

\* the streaming handler of a subscriber takes an event out of its queue
ClientGet ==
  /\ \E q \in subscribed :
       /\ qsize[q] > 0
       /\ qsize' = [qsize EXCEPT ![q] = qsize[q] - 1]
  /\ call' = [op |-> "client_get", from |-> state]
  /\ UNCHANGED <<outside_worker, sse_queues, ws_queues, subscribed, worker_pc,
                 todo, owed>>

\* process_message begins: _broadcast_sse copies the list it iterates
WorkerMessage ==
  /\ worker_pc = "idle"
  /\ worker_pc' = "sse"
  /\ todo' = sse_queues
  /\ owed' = subscribed
  /\ call' = [op |-> "process_message", from |-> state]
  /\ UNCHANGED <<outside_worker, sse_queues, ws_queues, qsize, subscribed>>

\* how asyncio.wait_for(queue.put(event), timeout=1.0) can end: the item is
\* put when the queue has space; a queue that is full for the whole second
\* times out, or the wait raises (a queue that another event loop waited on
\* raises RuntimeError as soon as it has to wait)
PutOutcomes(size) ==
  IF size < SubscriberMaxsize THEN {"put"} ELSE {"timeout", "raised"}

\* the except clauses of the worker's loops: TimeoutError is passed over,
\* any other exception removes the queue from the worker's list
after_put(queues, q, outcome) ==
  IF outcome = "raised" THEN remove_client(queues, q) ELSE queues

\* one round of the loop of _broadcast_sse
WorkerPutSse ==
  /\ worker_pc = "sse"
  /\ todo # << >>
  /\ \E outcome \in PutOutcomes(qsize[Head(todo)]) :
       /\ qsize' = IF outcome = "put"
                   THEN [qsize EXCEPT ![Head(todo)] = qsize[Head(todo)] + 1]
                   ELSE qsize
       /\ sse_queues' = after_put(sse_queues, Head(todo), outcome)
       /\ call' = [op |-> "broadcast_sse", from |-> outcome]
  /\ todo' = Tail(todo)
  /\ owed' = owed \ {Head(todo)}
  /\ UNCHANGED <<outside_worker, ws_queues, subscribed, worker_pc>>

\* _broadcast_sse returns and _broadcast_websocket copies its list
WorkerWebsocket ==
  /\ worker_pc = "sse"
  /\ todo = << >>
  /\ worker_pc' = "ws"
  /\ todo' = ws_queues
  /\ call' = [op |-> "broadcast_websocket", from |-> "begin"]
  /\ UNCHANGED <<outside_worker, sse_queues, ws_queues, qsize, subscribed, owed>>

\* one round of the loop of _broadcast_websocket
WorkerPutWs ==
  /\ worker_pc = "ws"
  /\ todo # << >>
  /\ \E outcome \in PutOutcomes(qsize[Head(todo)]) :
       /\ qsize' = IF outcome = "put"
                   THEN [qsize EXCEPT ![Head(todo)] = qsize[Head(todo)] + 1]
                   ELSE qsize
       /\ ws_queues' = after_put(ws_queues, Head(todo), outcome)
       /\ call' = [op |-> "broadcast_websocket", from |-> outcome]
  /\ todo' = Tail(todo)
  /\ owed' = owed \ {Head(todo)}
  /\ UNCHANGED <<outside_worker, sse_queues, subscribed, worker_pc>>

\* _broadcast_websocket is through: the event is broadcast
WorkerBroadcasted ==
  /\ worker_pc = "ws"
  /\ todo = << >>
  /\ worker_pc' = "done"
  /\ call' = [op |-> "broadcasted", from |-> state]
  /\ UNCHANGED <<outside_worker, sse_queues, ws_queues, qsize, subscribed,
                 todo, owed>>

\* process_message returns
WorkerReturn ==
  /\ worker_pc = "done"
  /\ worker_pc' = "idle"
  /\ owed' = {}
  /\ call' = [op |-> "return", from |-> state]
  /\ UNCHANGED <<outside_worker, sse_queues, ws_queues, qsize, subscribed, todo>>

NextBroadcast ==
  \/ WorkerAddSseClient \/ WorkerAddWsClient \/ WorkerRemoveClient
  \/ ClientGet \/ WorkerMessage \/ WorkerPutSse \/ WorkerWebsocket
  \/ WorkerPutWs \/ WorkerBroadcasted \/ WorkerReturn

SpecBroadcast == InitStopped /\ [][NextBroadcast]_vars

\* ------------------------------------------------------------
\* the audio sender of WhisperLiveClient. connect() hands the sender loops the
\* queue pipeline.audio_queue; its frames are put by whoever holds that queue

\* what a sender loop and its queue leave alone
outside_sender == <<avars, lvars, fvars, bvars, wvars, state, last_error,
                    capture_running, audio_task, client_task, aggregator_task,
                    client_running, client_connected, receiver_loops,
                    event_queue, queues_allocated, starts_waiting, stop_pc>>

\* a frame is put into the audio queue that start() made
LinkPut ==
  /\ queues_allocated > 0
  /\ frames_offered < MaxOffered
  /\ frames_offered' = frames_offered + 1
  /\ link_queue' = Append(link_queue, frames_offered + 1)
  /\ call' = [op |-> "link_put", from |-> state]
  /\ UNCHANGED <<outside_sender, sender_loops, outbound>>

\* the frame goes out as soon as a transport is there
may_send_unconnected(websocket, connected) == websocket

\* if self._websocket and self._connected
may_send(websocket, connected) == websocket /\ connected

\* the oldest frame is always the one taken
next_frame_newest(queue) == queue[Len(queue)]

\* audio_queue.get()
next_frame(queue) == Head(queue)

\* the queue without the frame taken
rest_after(queue, frame) ==
  SelectSeq(queue, LAMBDA f : f # frame)

\* one round of _audio_sender that gets a frame while _running is set: the
\* frame is sent on the transport (the write is made when send is called),
\* or the send raises and the loop ends; without a connection the frame is
\* taken and not sent
SenderFrame ==
  /\ sender_loops > 0
  /\ client_running
  /\ link_queue # << >>
  /\ link_queue' = rest_after(link_queue, next_frame(link_queue))
  /\ \E outcome \in {"sent", "closed", "raised"} :
       /\ IF may_send(socket = "open", client_connected)
          THEN /\ outbound' = IF outcome = "sent"
                              THEN Append(outbound,
                                          [frame |-> next_frame(link_queue),
                                           session |-> reconnect_count])
                              ELSE outbound
               /\ sender_loops' = IF outcome = "sent" THEN sender_loops
                                  ELSE sender_loops - 1
          ELSE /\ outcome = "sent"
               /\ UNCHANGED <<outbound, sender_loops>>
       /\ call' = [op |-> "sender_frame", from |-> outcome]
  /\ UNCHANGED <<outside_sender, frames_offered>>

NextSender ==
  \/ Start \/ LinkStartResume \/ AudioBegin
  \/ LinkBegin \/ LinkWake \/ ConnectOpened \/ ConfigSent \/ ReadyMessage
  \/ ReceiverDisconnect \/ SenderExit
  \/ LinkPut \/ SenderFrame

SpecSender == InitStopped /\ [][NextSender]_vars

\* the first start() of the pipeline
StartOnce == queues_allocated = 0 /\ Start

\* a frame put into the queue while the link is connected
ConnectedPut == is_connected /\ LinkPut

\* POST /control/stop while the link is connected
ConnectedStop == is_connected /\ Stop

\* the sender loops and the link during the first run, and a stop() of the
\* connected pipeline
NextStopping ==
  \/ StartOnce \/ LinkStartResume \/ AudioBegin
  \/ LinkBegin \/ LinkWake \/ ConnectOpened \/ ConfigSent \/ ReadyMessage
  \/ ReceiverDisconnect \/ SenderExit
  \/ ConnectedPut \/ SenderFrame
  \/ ConnectedStop \/ StopClose \/ StopAwait

SpecStopping == InitStopped /\ [][NextStopping]_vars

\* the aggregator task after `except Exception` in _aggregator_loop
after_error_ended(task) == "done"

after_error(task) == task

\* one round of _aggregator_loop in which process_event raises an exception
\* other than TimeoutError and CancelledError, before the aggregator has
\* changed anything: the event is gone from the queue, the message is kept in
\* _last_error, and the while loop goes on
AggregatorRaises ==
  /\ aggregator_task = "running"
  /\ TasksBegun
  /\ LoopsOn(state)
  /\ event_queue # << >>
  /\ event_queue' = Tail(event_queue)
  /\ last_error' = "aggregator"
  /\ aggregator_task' = after_error(aggregator_task)
  /\ call' = [op |-> "aggregator_raised", from |-> state]
  /\ UNCHANGED <<xvars, avars, state, capture_running, audio_task,
                 client_task, client_running, client_connected, sender_loops,
                 receiver_loops, queues_allocated, starts_waiting, stop_pc>>

\* the pipeline with an aggregator whose processing may raise
NextAggregatorErrors == NextPipeline \/ AggregatorRaises

SpecAggregatorErrors == InitStopped /\ [][NextAggregatorErrors]_vars

\* the segments an upstream message may carry: without an id or with the id
\* 0, 1 or 2, starting at second 0 or 1, completed or not
UpstreamSegments ==
  [id : {NoId} \cup (0..MaxSegs), start : 0..1, completed : BOOLEAN,
   text : {TextPool[1]}]

\* the transcription messages of one to MaxPerMessage segments
UpstreamMessages ==
  { Message("", "", FALSE, segs) :
      segs \in UNION { [1..n -> UpstreamSegments] : n \in 1..MaxPerMessage } }

\* _convert_to_streaming_events applied to one transcription message
ConvertMessage ==
  /\ \E msg \in UpstreamMessages :
       /\ inbound' = convert_to_streaming_events(msg)
       /\ call' = [op |-> "convert", from |-> state, message |-> msg]
  /\ UNCHANGED <<avars, lvars, fvars, wvars, ovars, segments_dropped, sse_clients,
                 ws_clients, emitted, state, last_error, capture_running,
                 audio_task, client_task, aggregator_task, client_running,
                 client_connected, sender_loops, receiver_loops, event_queue,
                 queues_allocated, starts_waiting, stop_pc>>

NextConvert == ConvertMessage

SpecConvert == InitStopped /\ [][NextConvert]_vars

\* the audio queues by identity: queue 0 is made in Pipeline.__init__, queue n
\* by the n-th accepted start()
InitQueue == 0

\* the queue AudioCapture puts frames into: the one it was constructed with
capture_audio_queue == InitQueue

\* pipeline.audio_queue, which _whisper_client_loop hands to connect() and the
\* sender loops read
pipeline_audio_queue == queues_allocated

\* ------------------------------------------------------------ properties
InView(segs, sid) == find_segment(segs, sid) # 0

StatusOf(segs, sid) == segs[find_segment(segs, sid)].status

HashOf(segs, sid) == segs[find_segment(segs, sid)].text_hash

Rank(status) == CASE status = "partial" -> 1 [] status = "final" -> 2 [] status = "committed" -> 3

\* C1: a step that commits a segment comes at least CommitDelay seconds after
\* the first FINAL event observed for that segment id.
C1_CommitDelayElapsed ==
  [][last'.commit_sid # 0 =>
       /\ last'.commit_sid \in DOMAIN first_final'
       /\ now' - first_final'[last'.commit_sid] >= CommitDelay]_vars

\* C2: the step that processes the first FINAL event of a segment id does not
\* commit the segment and leaves the consolidated text as it was; a later commit
\* of the id comes no earlier than CommitDelay seconds after that first FINAL.
C2_FirstFinalNeverCommits ==
  [][\A sid \in Ids :
       /\ (sid \notin DOMAIN first_final /\ sid \in DOMAIN first_final') =>
            /\ last'.commit_sid # sid
            /\ InView(segments', sid) => StatusOf(segments', sid) # "committed"
            /\ consolidated'.text = consolidated.text
       /\ (sid \in DOMAIN first_final /\ last'.commit_sid = sid) =>
            now' >= first_final[sid] + CommitDelay]_vars

\* C3: an event never moves the stored status of a segment id backwards in
\* PARTIAL < FINAL < COMMITTED.
C3_StatusNeverBackwards ==
  [][last'.kind = "event" =>
       \A sid \in Ids :
         (InView(segments, sid) /\ InView(segments', sid)) =>
           Rank(StatusOf(segments', sid)) >= Rank(StatusOf(segments, sid))]_vars

\* C4: the status a segment holds immediately before it is set to COMMITTED
\* is FINAL.
C4_CommittedOnlyFromFinal == last.commit_sid # 0 => last.commit_from = "final"

\* C5: the revision stored for a segment id is never lower than any
\* revision stored for that id before.
C5_RevisionNeverDecreases ==
  [][last'.kind = "event" =>
       \A sid \in Ids :
         InView(segments', sid) => RevOf(segments', sid) >= last_rev[sid]]_vars

\* C6: every segment id appears at most once in the view.
C6_UniqueIds ==
  \A i, j \in 1..Len(segments) :
    i # j => segments[i].segment_id # segments[j].segment_id

\* two ids share the view, one updated to a later revision, one committed
C6_Witness ==
  /\ Len(segments) = 2
  /\ \E i \in 1..Len(segments) : segments[i].revision >= 2
  /\ \E i \in 1..Len(segments) : segments[i].status = "committed"

\* C7: the view never holds more than the configured number of segments; a
\* segment leaves the view only in a step that inserted a new id into a full
\* window, and no segment that stays is older than one that was removed.
C7_WindowBound ==
  /\ [](Len(segments) <= max_unconsolidated)
  /\ [][last'.kind = "event" =>
          /\ \A sid \in Ids :
               (InView(segments, sid) /\ ~InView(segments', sid)) =>
                 /\ \E k \in 1..Len(last'.evicted) : last'.evicted[k].segment_id = sid
                 /\ Len(segments) = max_unconsolidated
                 /\ \E new \in Ids : ~InView(segments, new) /\ InView(segments', new)
          /\ \A k \in 1..Len(last'.evicted) :
               \A i \in 1..Len(segments') :
                 last'.evicted[k].created_at <= segments'[i].created_at]_vars

\* a committed segment was evicted by a younger one
C7_Witness ==
  /\ Len(last.evicted) = 1
  /\ last.evicted[1].status = "committed"
  /\ \E i \in 1..Len(segments) : segments[i].created_at > last.evicted[1].created_at

\* C8: in a consolidation step the revision of the consolidated transcript
\* increases exactly when its text changes.
C8_RevisionIffTextChanged ==
  [][last'.kind = "event" =>
       ((consolidated'.revision > consolidated.revision)
          <=> (consolidated'.text # consolidated.text))]_vars

\* C9: except across a reset, the consolidated text before a step is a prefix
\* of the consolidated text after it.
C9_AppendOnly ==
  [][last'.kind # "reset" => StartsWith(consolidated'.text, consolidated.text)]_vars

\* a second absorption extended a non-empty text
C9_Witness ==
  /\ last.appended # << >>
  /\ consolidated.revision >= 2
  /\ Len(Split(consolidated.text)) >= 3

\* C10: a hash is absorbed only if it was not in the ledger, and committing a
\* segment whose hash is in the ledger leaves consolidated text and revision
\* as they were.
C10_LedgerBlocksReplay ==
  [][last'.kind = "event" =>
       /\ \A i \in 1..Len(last'.appended) : last'.appended[i] \notin committed_hashes
       /\ (/\ last'.commit_sid # 0
           /\ HashOf(segments', last'.commit_sid) \in committed_hashes) =>
            /\ consolidated'.text = consolidated.text
            /\ consolidated'.revision = consolidated.revision]_vars

\* the segment just committed carries the text of a segment committed before
\* it under another id, and nothing was absorbed
C10_Witness ==
  /\ last.commit_sid # 0
  /\ last.appended = << >>
  /\ \E other \in Ids :
       /\ other # last.commit_sid
       /\ InView(segments, other)
       /\ StatusOf(segments, other) = "committed"
       /\ HashOf(segments, other) = HashOf(segments, last.commit_sid)
       /\ HashOf(segments, other) # << >>

\* the texts upstream can send whose normal form is the cached text of sid
ReplayTexts(sid) ==
  {text \in Texts \cup QuestionTexts : normalize_text(text) = cache[sid]}

\* the call leaves view, consolidated transcript, ledger and questions alone
NoOp(r) ==
  /\ r.segments = segments
  /\ r.cons = consolidated
  /\ r.hashes = committed_hashes
  /\ r.questions = questions

\* C11: a FINAL whose normalized text is the current text of a COMMITTED
\* segment, and a PARTIAL whose normalized text is the current text of a PARTIAL
\* segment, leave the view, the consolidated text and revision, the ledger and
\* the question set unchanged.
C11_ReplayIsNoOp ==
  \A i \in 1..Len(segments) :
    LET sid == segments[i].segment_id IN
    \A text \in ReplayTexts(sid), lang \in {NoLanguage, French} :
      /\ segments[i].status = "committed" =>
           NoOp(handle_segment_event(sid, TRUE, text, StartTimeOf(sid), lang, now))
      /\ segments[i].status = "partial" =>
           NoOp(handle_segment_event(sid, FALSE, text, StartTimeOf(sid), lang, now))

\* a committed segment whose question was recorded earlier than now, next to a
\* partial segment
C11_Witness ==
  /\ \E i \in 1..Len(segments) :
       /\ segments[i].status = "committed"
       /\ YieldsQuestion(segments[i])
       /\ \E k \in 1..Len(questions) :
            /\ SeqContains(questions[k].segment_ids, segments[i].segment_id)
            /\ questions[k].last_seen < now
       /\ commit_timestamps[segments[i].segment_id] + CommitDelay <= now
  /\ \E i \in 1..Len(segments) : segments[i].status = "partial"

\* C14: the question set never holds more than max_questions questions; a
\* question is removed only when a new one is inserted into a full set, the
\* inserted question stays, and no question that stays was first seen before a
\* removed one.
C14_QuestionBound ==
  /\ [](Len(questions) <= max_questions)
  /\ [][last'.kind = "event" =>
          /\ \A k \in 1..Len(last'.questions_removed) :
               LET removed == last'.questions_removed[k] IN
               /\ find_question(questions, removed.question_id) # 0
               /\ Len(questions) = max_questions
               /\ \A j \in 1..Len(questions') :
                    removed.first_seen <= questions'[j].first_seen
          /\ \A k \in 1..Len(questions) :
               find_question(questions', questions[k].question_id) = 0 =>
                 \E j \in 1..Len(last'.questions_removed) :
                   last'.questions_removed[j] = questions[k]]_vars

\* a question was removed to make room for one first seen later
C14_Witness ==
  /\ Len(last.questions_removed) = 1
  /\ Len(questions) = max_questions
  /\ \A j \in 1..Len(questions) :
       last.questions_removed[1].first_seen < questions[j].first_seen

NoDuplicates(seq) == \A i, j \in 1..Len(seq) : i # j => seq[i] # seq[j]

\* C15: when the segment handed to question extraction yields a question_id
\* that is already in the set, the number of questions is unchanged, the
\* segment id is appended to that question's segment_ids only if absent,
\* last_seen becomes the current time and first_seen is kept; segment_ids never
\* holds a duplicate.
C15_KnownQuestionMerged ==
  /\ [](\A k \in 1..Len(questions) : NoDuplicates(questions[k].segment_ids))
  /\ [][last'.question_sid # 0 =>
          LET sid == last'.question_sid
              seg == segments'[find_segment(segments', sid)]
              old == find_question(questions, generate_id(normalize_text(seg.text)))
          IN (YieldsQuestion(seg) /\ old # 0) =>
               /\ Len(questions') = Len(questions)
               /\ \A k \in 1..Len(questions) :
                    k # old => questions'[k] = questions[k]
               /\ questions'[old].question_id = questions[old].question_id
               /\ questions'[old].segment_ids =
                    IF SeqContains(questions[old].segment_ids, sid)
                    THEN questions[old].segment_ids
                    ELSE Append(questions[old].segment_ids, sid)
               /\ questions'[old].last_seen = now'
               /\ questions'[old].first_seen = questions[old].first_seen]_vars

\* a question met again under another segment id, later than first seen, and
\* then again under an id it already lists
C15_Witness ==
  /\ last.question_sid # 0
  /\ \E k \in 1..Len(questions) :
       /\ Len(questions[k].segment_ids) = 2
       /\ questions[k].segment_ids[1] = last.question_sid
       /\ questions[k].last_seen > questions[k].first_seen
       /\ questions[k].last_seen = now

\* the largest i in i..1 for which the first i words of words_new are the
\* last i words of words_current, else 0
RECURSIVE HeadOverlap(_, _, _)
HeadOverlap(words_new, words_current, i) ==
  IF i = 0 THEN 0
  ELSE IF /\ i <= Len(words_new)
          /\ i <= Len(words_current)
          /\ SubSeq(words_new, 1, i)
               = SubSeq(words_current, Len(words_current) - i + 1, Len(words_current))
       THEN i
  ELSE HeadOverlap(words_new, words_current, i - 1)

\* the words of a text after its first k words
WordsAfter(text, k) == Join(SubSeq(Split(text), k + 1, Len(Split(text))))

\* C12: when a step appends one newly committed segment whose first k >= 1
\* words are the last k words of the consolidated text, the text grows by the
\* segment's words after those k only, and the revision increases by 1
\* (a segment that starts with the whole text is the separate prefix case).
C12_OverlapTrimmed ==
  [][(/\ last'.kind = "event"
      /\ Len(last'.appended) = 1
      /\ ~StartsWith(last'.appended[1], Strip(Lower(consolidated.text)))
      /\ HeadOverlap(Split(last'.appended[1]), Split(Lower(consolidated.text)),
                     Len(Split(last'.appended[1]))) > 0)
     => LET nrm == last'.appended[1]
            k == HeadOverlap(Split(nrm), Split(Lower(consolidated.text)), Len(Split(nrm)))
        IN /\ Lower(consolidated'.text)
                = Lower(Strip(AppendSuffix(consolidated.text, WordsAfter(nrm, k))))
           /\ consolidated'.revision = consolidated.revision + 1]_vars

\* the claim's three tests on lowercased, stripped texts
Suppressible(nrm, cur) ==
  \/ nrm = cur
  \/ Contains(cur, nrm)
  \/ 5 * Cardinality(WordSet(nrm) \cap WordSet(cur)) > 4 * Cardinality(WordSet(nrm))

\* the segment a step committed, as stored after the step
CommittedSegment(segs, sid) == segs[find_segment(segs, sid)]

\* a step committed a segment whose text the claim's tests suppress
SuppressedCommit(segs, sid, cur) ==
  /\ sid # 0
  /\ InView(segs, sid)
  /\ Suppressible(Strip(Lower(normalize_text(CommittedSegment(segs, sid).text))),
                  Strip(Lower(cur)))

\* what the claim promises of such a step
Suppressed(cons, cons2, hashes2, seg) ==
  /\ cons2.text = cons.text
  /\ cons2.revision = cons.revision
  /\ seg.text_hash \in hashes2

\* C13 (as stated): a committed segment whose lowercased normalized text
\* equals the consolidated text, is a substring of it, or has more than 80%
\* of its distinct words in it, leaves text and revision unchanged and has
\* its text_hash recorded in the ledger.
C13_SuppressedAsStated ==
  [][(last'.kind = "event" /\ SuppressedCommit(segments', last'.commit_sid, consolidated.text))
     => Suppressed(consolidated, consolidated', committed_hashes',
                   CommittedSegment(segments', last'.commit_sid))]_vars

\* C13 (amended): the same, for a committed segment whose normalized text is
\* not empty.
C13_NonEmptySuppressed ==
  [][(/\ last'.kind = "event"
      /\ SuppressedCommit(segments', last'.commit_sid, consolidated.text)
      /\ normalize_text(CommittedSegment(segments', last'.commit_sid).text) # << >>)
     => Suppressed(consolidated, consolidated', committed_hashes',
                   CommittedSegment(segments', last'.commit_sid))]_vars

\* a segment was just suppressed by the similarity test alone: it is neither
\* the text nor a substring of it, and this is the first commit of its text
C13_Witness ==
  /\ last.kind = "event"
  /\ last.commit_sid # 0
  /\ last.appended = << >>
  /\ InView(segments, last.commit_sid)
  /\ CommittedSegment(segments, last.commit_sid).revision = 1
  /\ LET nrm == Strip(Lower(normalize_text(CommittedSegment(segments, last.commit_sid).text)))
         cur == Strip(Lower(consolidated.text))
     IN /\ nrm # << >>
        /\ ~Contains(cur, nrm)
        /\ Suppressible(nrm, cur)
        /\ CommittedSegment(segments, last.commit_sid).text_hash \in committed_hashes

\* the three tasks of the pipeline
Tasks == <<audio_task, client_task, aggregator_task>>

\* the aggregator's transcript state
Transcript == <<segments, cache, commit_timestamps, consolidated,
                committed_hashes, questions>>

\* C16: start() in STARTING, RUNNING, DEGRADED or STOPPING changes nothing:
\* the state stays, no task is spawned, the queues are kept and the
\* aggregator is not reset; so for a second start() during the startup wait.
C16_StartRejected ==
  [][(call'.op = "start" /\ state \in {"STARTING", "RUNNING", "DEGRADED", "STOPPING"})
     => /\ state' = state
        /\ Tasks' = Tasks
        /\ queues_allocated' = queues_allocated
        /\ event_queue' = event_queue
        /\ starts_waiting' = starts_waiting
        /\ Transcript' = Transcript]_vars

\* a second start() arrived during the startup wait of the first, with an
\* event queued and a segment in the aggregator
C16_Witness ==
  /\ call = [op |-> "start", from |-> "STARTING"]
  /\ starts_waiting = 1
  /\ state = "STARTING"
  /\ event_queue # << >>
  /\ segments # << >>
  /\ aggregator_task = "running"

\* C17: start() in ERROR is a fresh attempt: the state becomes STARTING,
\* last_error is cleared and the three tasks are spawned.
C17_StartFromError ==
  [][(call'.op = "start" /\ state = "ERROR")
     => /\ state' = "STARTING"
        /\ last_error' = "none"
        /\ Tasks' = <<"created", "running", "running">>]_vars

\* every loop of the pipeline has returned
AllLoopsExited ==
  /\ audio_task \in {"none", "done"}
  /\ client_task \in {"none", "done"}
  /\ aggregator_task \in {"none", "done"}
  /\ sender_loops = 0
  /\ receiver_loops = 0

\* C18: stop() outside STOPPED moves the pipeline to STOPPING, and the
\* pipeline becomes STOPPED only when every loop (audio capture, the link
\* with its send and receive loops, aggregator) has returned.
C18_StoppedAfterLoopsExit ==
  [][/\ (call'.op = "stop" /\ state # "STOPPED") => state' \in {"STOPPING", "STOPPED"}
     /\ (state # "STOPPED" /\ state' = "STOPPED") => AllLoopsExited']_vars

\* C19: in DEGRADED without a failure the link task and the aggregator task
\* are running.
C19_DegradedKeepsRunning ==
  (state = "DEGRADED" /\ last_error = "none")
    => (client_task = "running" /\ aggregator_task = "running")

\* C20: a failure of the audio capture sets last_error and makes the state
\* ERROR, and ERROR gives way to RUNNING or DEGRADED only in a step that is
\* a call of start() or stop().
C20_ErrorUntilCalled ==
  [][/\ call'.op = "audio_raised" => (state' = "ERROR" /\ last_error' = "audio")
     /\ (state = "ERROR" /\ state' \in {"RUNNING", "DEGRADED"})
          => call'.op \in {"start", "stop"}]_vars

\* C21: while the pipeline is RUNNING the link makes at most ten failed
\* connection attempts in a row: after the tenth failure no further attempt
\* is under way, and the pipeline state is ERROR as soon as the link has
\* woken from its last sleep.
C21_AttemptsBounded ==
  (state = "RUNNING" /\ failures >= MaxReconnectAttempts)
    => /\ failures = MaxReconnectAttempts
       /\ link_pc \notin {"opening", "sending", "awaiting"}

\* C22: the delay before the jitter follows the backoff schedule: a failed
\* attempt that was not answered with WAIT doubles it (base * 2^n after n
\* such failures in a row, up to the clamp), a failed attempt answered with
\* WAIT multiplies it by 1.5 up to the clamp, and a successful connection
\* sets it back to the base.
C22_BackoffSchedule ==
  [][/\ (failures' = failures + 1 /\ ~waiting')
          => reconnect_delay' = Min(reconnect_delay * 2, MaxDelay)
     /\ (failures' = failures + 1 /\ waiting')
          => reconnect_delay' = Min((reconnect_delay * 3) \div 2, MaxDelay)
     /\ reconnect_count' = reconnect_count + 1
          => reconnect_delay' = BaseDelay]_vars

\* C23: the delay slept between two connection attempts, jitter included,
\* is never above 30 seconds.
C23_SleepClamped == slept <= MaxDelay

\* C24: reconnect_count goes up by exactly one at each successful
\* reconnect, that is at a connection established after an earlier session
\* of the run, and at no other step: not at a failed attempt, not at a WAIT
\* answer, not at the first connection of the run.
C24_CountsReconnects ==
  [][/\ reconnect_count' # reconnect_count
          => /\ reconnect_count' = reconnect_count + 1
             /\ had_session
             /\ ~client_connected /\ client_connected'
     /\ (had_session /\ ~client_connected /\ client_connected')
          => reconnect_count' = reconnect_count + 1]_vars

\* C25: the link reports connected only if, in the current session, the
\* handshake was sent and SERVER_READY was received after it; a session
\* answered with WAIT is not connected, its transport is closed and
\* connect() fails with was_waiting() set; and after the receive loop gets
\* DISCONNECT or finds the socket closed the link does not report connected.
\* (Inbound messages are JSON objects, as the upstream interface has them.)
C25_ConnectedAfterReady ==
  /\ [](is_connected => (handshake_sent /\ ready_received))
  /\ [](waiting => ~is_connected)
  /\ [][(call'.op = "link_ready" /\ waiting')
          => (socket' = "closed" /\ failures' = failures + 1
              /\ link_pc' = "sleeping")]_vars
  /\ [][(call'.op = "receiver" /\ receiver_loops' < receiver_loops
         /\ client_running)
          => ~(client_connected' /\ client_running')]_vars

\* a session is answered with WAIT after an earlier session of the run was
\* established and dropped
C25_Witness ==
  /\ call.op = "link_ready"
  /\ waiting
  /\ socket = "closed"
  /\ had_session
  /\ ~is_connected

\* C26: the pipeline is not RUNNING before SERVER_READY has been received
\* from the transcription service in this run: until then, and so while
\* every handshake is answered with WAIT, the state is not RUNNING.
C26_RunningAfterReady == state = "RUNNING" => had_session

\* C27: a frame that finds audio_queue full is dropped and counted once in
\* frames_dropped, is not counted in frames_captured, and is never queued
\* or taken for sending, in microphone mode and in file mode alike.
C27_FullQueueDrop ==
  /\ dropped_frames = Cardinality(refused)
  /\ frame_count <= frames_read - Cardinality(refused)
  /\ \A i \in 1..Len(audio_queue) : audio_queue[i] \notin refused
  /\ \A i \in 1..Len(taken) : taken[i] \notin refused

\* C28: when an inbound message is handed over, the events already in
\* event_queue stay where they are, the events of the message fill the free
\* places in their order, each event that finds the queue full is dropped
\* and counted once in segments_dropped, and the receive loop goes on.
C28_OverflowCounted ==
  [][call'.op = "message"
       => LET room == MaxQueue - Len(event_queue)
              kept == Min(room, Len(inbound'))
          IN /\ event_queue' = event_queue \o SubSeq(inbound', 1, kept)
             /\ segments_dropped' = segments_dropped + (Len(inbound') - kept)
             /\ receiver_loops' = receiver_loops
             /\ client_running']_vars

\* a message of three events found one free place: the first event was
\* queued behind the one already there and two were dropped
C28_Witness ==
  /\ call.op = "message"
  /\ Len(inbound) = 3
  /\ segments_dropped = 2
  /\ Len(event_queue) = MaxQueue
  /\ event_queue[MaxQueue] = inbound[1]
  /\ event_queue[1] # inbound[1]

InBuffer(buffer, event) == \E k \in 1..Len(buffer) : buffer[k] = event

\* every one of the events is in the buffer of every subscriber of the list
\* that had a free place
Offered(events, clients_before, clients_after) ==
  \A i \in 1..Len(clients_before) :
    Len(clients_before[i]) < SubscriberMaxsize
      => \A k \in 1..Len(events) : InBuffer(clients_after[i], events[k])

\* C29: every event the aggregator hands to its event callback, and every
\* event made from an inbound message, reaches the buffer of every
\* registered SSE and websocket subscriber that has a free place. (The
\* callbacks are synchronous and leave no broadcast behind them to run
\* later, so what they deliver is in the buffers when they return.)
C29_OfferedToSubscribers ==
  [][/\ call'.op = "aggregator"
          => /\ Offered(emitted', sse_clients, sse_clients')
             /\ Offered(emitted', ws_clients, ws_clients')
     /\ call'.op = "message"
          => /\ Offered(inbound', sse_clients, sse_clients')
             /\ Offered(inbound', ws_clients, ws_clients')]_vars

\* C30: a put that times out on a full buffer, or that fails, skips only that
\* event for that subscriber: no step of the broadcaster takes a subscriber
\* out of its lists, and when an event is broadcast every subscriber that stayed
\* subscribed and has space was either given the event or skipped for it on a
\* full buffer, so a subscriber skipped earlier gets the later events once it
\* has space and the others get the event it was skipped for.
C30_SkippedStaysSubscribed ==
  /\ [](worker_pc = "done" => \A q \in owed : qsize[q] = SubscriberMaxsize)
  /\ [][call'.op \in {"broadcast_sse", "broadcast_websocket"}
          => /\ Range(sse_queues) \subseteq Range(sse_queues')
             /\ Range(ws_queues) \subseteq Range(ws_queues')]_vars

\* C31: after every processed event the consolidated text is at most
\* max_consolidated_length characters long, whatever was committed.
C31_ConsolidatedCapped == Len(consolidated.text) <= MaxConsolidatedLength

\* C32: in every upstream session the handshake goes out before any audio: a
\* frame is sent only on an open transport on which the JSON handshake was
\* sent and SERVER_READY was received, also when the sender loop that took
\* the frame was started in an earlier session.
C32_HandshakeBeforeAudio ==
  [][Len(outbound') > Len(outbound)
       => socket = "open" /\ handshake_sent /\ ready_received]_vars

\* a frame was sent in the second session while the sender loop of the first
\* session was still alive
C32_Witness ==
  /\ sender_loops = 2
  /\ outbound # << >>
  /\ outbound[Len(outbound)].session = 2
  /\ handshake_sent

\* C34: at most one audio-sender loop and at most one event-receiver loop of
\* the upstream link are alive at any time, also after a remote DISCONNECT or
\* a closed socket followed by a successful reconnect.
C34_OneLoopEach == sender_loops <= 1 /\ receiver_loops <= 1

\* C35: within one reconnection epoch the audio frames go upstream in the
\* order in which they were put into the audio queue: of two frames sent in
\* the same session, the one put first was sent first.
C35_OrderWithinEpoch ==
  \A i, j \in 1..Len(outbound) :
    (i < j /\ outbound[i].session = outbound[j].session)
      => outbound[i].frame < outbound[j].frame

\* two frames were sent in one session while two sender loops were alive
C35_Witness ==
  /\ Len(outbound) = 2
  /\ outbound[1].session = outbound[2].session
  /\ sender_loops = 2

C36_SameAudioQueue ==
  queues_allocated > 0 => capture_audio_queue = pipeline_audio_queue

\* C37: an exception raised while the aggregator processes an event does not
\* end the aggregator loop: the task keeps running, last_error is set, exactly
\* that event leaves the queue, the pipeline state is unchanged, and every
\* round of the loop, before and after, takes the oldest event of the queue.
C37_AggregatorSurvives ==
  [][/\ call'.op = "aggregator_raised"
          => /\ aggregator_task' = "running"
             /\ last_error' = "aggregator"
             /\ state' = state
             /\ event_queue' = Tail(event_queue)
     /\ (call'.op = "aggregator" /\ aggregator_task' = "running")
          => event_queue' = Tail(event_queue)]_vars

\* after an event was dropped by an exception, a later segment event was
\* processed by the same loop
C37_Witness ==
  /\ last_error = "aggregator"
  /\ call.op = "aggregator"
  /\ aggregator_task = "running"
  /\ last.kind # "reset"

\* C38: every accepted start() leaves a clean aggregation state: right after
\* it the unconsolidated view is empty, the consolidated text is empty with
\* revision 0 and segment_count 0, the hash ledger and the commit-delay ledger
\* are empty, no question is held and the event queue is empty.
C38_CleanStart ==
  [][(call'.op = "start" /\ StartAllowed(state))
       => /\ segments' = << >>
          /\ consolidated' = EmptyConsolidated
          /\ committed_hashes' = {}
          /\ commit_timestamps' = EmptyDict
          /\ questions' = << >>
          /\ event_queue' = << >>]_vars

\* a second run in which a text was absorbed into the consolidated transcript
C38_Witness ==
  /\ queues_allocated = 2
  /\ consolidated.text # << >>
  /\ committed_hashes # {}

\* C39: every segment of an inbound message that carries an upstream id, 0
\* included, gives an event whose segment_id is that id; an id is synthesized
\* only for a segment without one.
C39_UpstreamIdKept ==
  call.op = "convert" =>
    \A i \in 1..Len(call.message.segments) :
      call.message.segments[i].id # NoId
        => inbound[i].segment_id = call.message.segments[i].id

\* C40: once stop() has returned the pipeline is STOPPED and stays STOPPED,
\* with no pipeline task running, until start() is called again, also when
\* the stop() came during the startup wait of an earlier start().
C40_StoppedUntilStart ==
  /\ [](state = "STOPPED" =>
         "running" \notin {audio_task, client_task, aggregator_task})
  /\ [][(state = "STOPPED" /\ call'.op # "start") => state' = "STOPPED"]_vars

====
